---- MODULE Spec2Model ----
(***************************************************************************)
(* The coordination store of lockstep-mcp: the file-backed JsonStore and   *)
(* the relational SqliteStore, as used by several agent processes that     *)
(* share one state document / one database file.                           *)
(*                                                                         *)
(* A process is one MCP server (one node event loop).  better-sqlite3 is   *)
(* synchronous, so inside one process the statements of a SqliteStore      *)
(* method run back to back; statements of other processes interleave       *)
(* between them unless the method wraps them in db.transaction().  The     *)
(* JsonStore awaits every file operation, so each file operation is a step.*)
(***************************************************************************)
EXTENDS Integers, Sequences, FiniteSets, TLC

\* ------------------------------------------------------------------ inputs
Procs == {"a1", "a2"}
Paths == {"src/app.go", "README.md"}
Owners == {"impl-1", "impl-2"}
\* JavaScript undefined / SQL NULL of an optional field
UNDEF == "undefined"
\* an optional list that is absent (undefined, NULL)
Absent == {UNDEF}
\* an optional owner argument: absent, the empty string, or a name
OwnerInputs == Owners \cup {UNDEF, ""}
NoProc == "nobody"
\* a timestamp column that is NULL, a timestamp that is absent
NoTime == 0 - 1
\* the task workflow is followed call by call: its calls come from one process
Reviewers == {"a1"}
ProjectRoots == {"/proj/a", "/proj/b"}

\* bound on the number of Lock records before acquireLock stops being called
MaxLocks == 3
\* bound on the number of tasks createTask is called for
MaxTasks == 1

Statuses == {"todo", "in_progress", "blocked", "review", "done"}
\* an optional owner of a task: absent or a name
TaskOwnerInputs == Owners \cup {UNDEF}
ReviewNotes == {"fixed null check"}
Feedbacks == {"LGTM"}
\* ids a caller may pass: the ids createTask has handed out, and one unknown
TaskIds == 1..(MaxTasks + 1)

VARIABLES
  backend,   \* "json" | "sqlite": which Store createStore() built
  locks,     \* state.json .locks / table locks, in insertion order
  tasks,     \* state.json .tasks / table tasks, in insertion order
  notes,     \* state.json .notes / table notes, in insertion order
  marker,    \* state.lock: the process that created it, or NoProc
  clock,     \* the wall clock nowIso() reads; it advances where Tick is a step
  pc,        \* per process: position inside the store call it is running
  op,        \* per process: the store method it is running, or "none"
  local,     \* per process: the in-memory object of the running call
  result,    \* method and outcome decided by the step just taken, if any
  held,      \* history: per path, acquireLock successes since the last release
  acquired,  \* history: per path, acquireLock successes so far
  contexts,      \* project-contexts.json / table project_contexts, by project root
  implementers,  \* implementers.json / table implementers, in insertion order
  discussions,   \* table discussions, by id (the position of the row's INSERT)
  messages,      \* table discussion_messages, in insertion order
  repo           \* the git repository: main checkout, worktrees, branches

\* what the task, lock and note methods never touch
others == <<contexts, implementers, discussions, messages, repo>>

vars == <<backend, locks, tasks, notes, marker, clock, pc, op, local, result,
          held, acquired, contexts, implementers, discussions, messages, repo>>

NoResult == [kind |-> "none", out |-> "none"]
Res(k, o) == [kind |-> k, out |-> o]

\* JavaScript truthiness of an optional string
Truthy(s) == s \notin {UNDEF, ""}

\* ------------------------------------------------------------------- locks
Lock(path, owner) == [path |-> path, owner |-> owner, status |-> "active"]

\* indexes of the records a find()/SELECT for the active lock of a path sees
ActiveAt(ls, path) ==
  {i \in 1..Len(ls) : ls[i].path = path /\ ls[i].status = "active"}

FirstOf(S) == CHOOSE i \in S : \A j \in S : i <= j

\* a plausible slip: only the newest record is looked at
ExistingLockNewestOnly(ls, path) == {i \in ActiveAt(ls, path) : i = Len(ls)}

\* acquireLock's existence test: the active records of the path
ExistingLock(ls, path) == ActiveAt(ls, path)

\* a plausible slip: the released record is filtered out of the list
ResolveByRemoval(ls, i) == SubSeq(ls, 1, i - 1) \o SubSeq(ls, i + 1, Len(ls))

\* releaseLock's mutation: lock.status = "resolved" on the record found
Resolve(ls, i) == [ls EXCEPT ![i].status = "resolved"]

\* a plausible slip: the comparison of the two owners inverted
OwnerMismatchInverted(inOwner, lockOwner) ==
  Truthy(inOwner) /\ Truthy(lockOwner) /\ inOwner = lockOwner

\* releaseLock's ownership test
OwnerMismatch(inOwner, lockOwner) ==
  Truthy(inOwner) /\ Truthy(lockOwner) /\ inOwner # lockOwner

\* the whole state document, as loadState() parses it
StateDoc == [tasks |-> tasks, locks |-> locks, notes |-> notes]

\* ------------------------------------------------ JsonStore.withStateLock
\* a plausible slip: flag "w" instead of "wx", which never fails with EEXIST
OpenNotExclusive == TRUE

\* fs.open(lockPath, "wx") succeeds only when the file does not exist
OpenExclusive == marker = NoProc

\* calls of the file-backed store that are inside withStateLock or its body
InFlight(kind) == Cardinality({q \in Procs : op[q] = kind})

\* A process enters a mutating method.  The method reads its arguments first
\* inside the critical section, so they are drawn there.
JsonBegin(q, kind) ==
  /\ backend = "json"
  /\ pc[q] = "idle"
  /\ op' = [op EXCEPT ![q] = kind]
  /\ pc' = [pc EXCEPT ![q] = "wait"]
  /\ result' = NoResult
  /\ UNCHANGED <<others, backend, locks, tasks, notes, marker, clock, local, held, acquired>>

JsonAcquireLockCall(q) ==
  /\ Len(locks) + InFlight("acquireLock") < MaxLocks
  /\ JsonBegin(q, "acquireLock")

JsonReleaseLockCall(q) == JsonBegin(q, "releaseLock")

WithStateLockOpen(q) ==
  /\ pc[q] = "wait"
  /\ OpenExclusive
  /\ marker' = q
  /\ pc' = [pc EXCEPT ![q] = "load"]
  /\ result' = NoResult
  /\ UNCHANGED <<others, backend, locks, tasks, notes, clock, op, local, held, acquired>>

\* a plausible slip: the loop has no timeout test
NeverTimedOut == FALSE

\* Date.now() - start > timeoutMs: the elapsed time is not part of the state,
\* so the test may pass at any failed open
TimedOut == TRUE

\* EEXIST and more than timeoutMs elapsed since the call started; the elapsed
\* time is not part of the state, so the timeout may strike at any failed open
WithStateLockTimeout(q) ==
  /\ pc[q] = "wait"
  /\ ~OpenExclusive
  /\ TimedOut
  /\ result' = Res(op[q], "LockTimeout")
  /\ pc' = [pc EXCEPT ![q] = "idle"]
  /\ op' = [op EXCEPT ![q] = "none"]
  /\ UNCHANGED <<others, backend, locks, tasks, notes, marker, clock, local, held, acquired>>

\* the methods that work on state.json
StateOps == {"acquireLock", "releaseLock", "createTask", "updateTask", "claimTask",
             "appendNote"}

JsonLoadState(q) ==
  /\ pc[q] = "load"
  /\ op[q] \in StateOps
  /\ local' = [local EXCEPT ![q] = StateDoc]
  /\ pc' = [pc EXCEPT ![q] = "body"]
  /\ result' = NoResult
  /\ UNCHANGED <<others, backend, locks, tasks, notes, marker, clock, op, held, acquired>>

\* saveState(state): the whole document is replaced by the caller's copy
SaveState(doc) ==
  /\ locks' = doc.locks
  /\ tasks' = doc.tasks
  /\ notes' = doc.notes

\* a plausible slip: the unlink is not in a finally block and is forgotten
MarkerKept(m) == m

\* fs.unlink(lockPath): whatever file is at lockPath is removed
MarkerUnlinked(m) == NoProc

\* the finally block: unlink whatever file is at lockPath, then return or rethrow
WithStateLockUnlink(q) ==
  /\ pc[q] = "unlink"
  /\ marker' = MarkerUnlinked(marker)
  /\ pc' = [pc EXCEPT ![q] = "idle"]
  /\ op' = [op EXCEPT ![q] = "none"]
  /\ result' = NoResult
  /\ UNCHANGED <<others, backend, locks, tasks, notes, clock, local, held, acquired>>

\* the method body has thrown or returned: its copy of the document is dropped
BodyDone(q) ==
  /\ pc' = [pc EXCEPT ![q] = "unlink"]
  /\ local' = [local EXCEPT ![q] = UNDEF]
  /\ UNCHANGED <<backend, marker, clock, op>>

\* ------------------------------------------------- JsonStore lock methods
JsonAcquireLockBody(q, path, owner) ==
  /\ pc[q] = "body"
  /\ op[q] = "acquireLock"
  /\ BodyDone(q)
  /\ UNCHANGED others
  /\ IF ExistingLock(local[q].locks, path) # {}
       THEN /\ result' = Res("acquireLock", "LockConflict")
            /\ UNCHANGED <<others, backend, locks, tasks, notes, held, acquired>>
       ELSE /\ SaveState([local[q] EXCEPT !.locks = Append(@, Lock(path, owner))])
            /\ result' = Res("acquireLock", "ok")
            /\ held' = [held EXCEPT ![path] = @ + 1]
            /\ acquired' = [acquired EXCEPT ![path] = @ + 1]

JsonReleaseLockBody(q, path, owner) ==
  /\ pc[q] = "body"
  /\ op[q] = "releaseLock"
  /\ BodyDone(q)
  /\ UNCHANGED others
  /\ LET act == ActiveAt(local[q].locks, path) IN
     IF act = {}
       THEN /\ result' = Res("releaseLock", "LockNotFound")
            /\ UNCHANGED <<others, backend, locks, tasks, notes, held, acquired>>
       ELSE LET i == FirstOf(act) IN
            IF OwnerMismatch(owner, local[q].locks[i].owner)
              THEN /\ result' = Res("releaseLock", "OwnershipMismatch")
                   /\ UNCHANGED <<others, backend, locks, tasks, notes, held, acquired>>
              ELSE /\ SaveState([local[q] EXCEPT !.locks = Resolve(@, i)])
                   /\ result' = Res("releaseLock", "ok")
                   /\ held' = [held EXCEPT ![path] = 0]
                   /\ UNCHANGED acquired

\* ----------------------------------------------- SqliteStore lock methods
\* INSERT INTO locks: path is the PRIMARY KEY of the table
InsertLockFails(ls, path) == \E i \in 1..Len(ls) : ls[i].path = path

\* db.transaction(() => { SELECT active; INSERT }): one atomic unit; a throw
\* inside it rolls the transaction back
SqliteAcquireLock(q, path, owner) ==
  /\ backend = "sqlite"
  /\ pc[q] = "idle"
  /\ Len(locks) < MaxLocks
  /\ IF ExistingLock(locks, path) # {}
       THEN /\ result' = Res("acquireLock", "LockConflict")
            /\ UNCHANGED <<locks, held, acquired>>
       ELSE IF InsertLockFails(locks, path)
         THEN /\ result' = Res("acquireLock", "ConstraintError")
              /\ UNCHANGED <<locks, held, acquired>>
         ELSE /\ locks' = Append(locks, Lock(path, owner))
              /\ result' = Res("acquireLock", "ok")
              /\ held' = [held EXCEPT ![path] = @ + 1]
              /\ acquired' = [acquired EXCEPT ![path] = @ + 1]
  /\ UNCHANGED <<others, backend, tasks, notes, marker, clock, pc, op, local>>

\* releaseLock, first statement: SELECT the active lock, parseLock, owner test
SqliteReleaseLockSelect(q, path, owner) ==
  /\ backend = "sqlite"
  /\ pc[q] = "idle"
  /\ LET act == ActiveAt(locks, path) IN
     IF act = {}
       THEN /\ result' = Res("releaseLock", "LockNotFound")
            /\ UNCHANGED <<pc, op, local>>
       ELSE IF OwnerMismatch(owner, locks[FirstOf(act)].owner)
         THEN /\ result' = Res("releaseLock", "OwnershipMismatch")
              /\ UNCHANGED <<pc, op, local>>
         ELSE /\ result' = NoResult
              /\ op' = [op EXCEPT ![q] = "releaseLock"]
              /\ local' = [local EXCEPT ![q] = locks[FirstOf(act)]]
              /\ pc' = [pc EXCEPT ![q] = "rel_update"]
  /\ UNCHANGED <<others, backend, locks, tasks, notes, marker, clock, held, acquired>>

\* releaseLock, second statement:
\* UPDATE locks SET status = 'resolved', updated_at = ? WHERE path = lock.path
SqliteReleaseLockUpdate(q) ==
  /\ pc[q] = "rel_update"
  /\ locks' = [i \in 1..Len(locks) |->
                 IF locks[i].path = local[q].path
                   THEN [locks[i] EXCEPT !.status = "resolved"]
                   ELSE locks[i]]
  /\ result' = Res("releaseLock", "ok")
  /\ held' = [held EXCEPT ![local[q].path] = 0]
  /\ pc' = [pc EXCEPT ![q] = "idle"]
  /\ op' = [op EXCEPT ![q] = "none"]
  /\ local' = [local EXCEPT ![q] = UNDEF]
  /\ UNCHANGED <<others, backend, tasks, notes, marker, clock, acquired>>

\* ------------------------------------------------------ specification: locks
\* the string[] fields of a ProjectContext, all optional
ListFields == {"techStack", "constraints", "acceptanceCriteria", "tests", "implementationPlan"}

\* no context stored for a project root: contexts[root] undefined / no row
NoContext ==
  [techStack |-> UNDEF, constraints |-> UNDEF, acceptanceCriteria |-> UNDEF,
   tests |-> UNDEF, implementationPlan |-> UNDEF, preferredImplementer |-> UNDEF,
   status |-> UNDEF, createdAt |-> NoTime]

\* 'existing' is truthy: created_at is NOT NULL in every stored context
HasContext(c) == c.createdAt # NoTime

\* a repository with one checkout on main, nothing in progress, no worktree
NoRepo ==
  [head |-> "main", merging |-> FALSE, rebasing |-> FALSE, unmerged |-> {},
   commits |-> {}, rebased |-> FALSE, fetched |-> FALSE, dirty |-> FALSE,
   differs |-> FALSE, rebase |-> "ok", conflicting |-> {}, blocked |-> FALSE,
   refuse |-> FALSE, commitFails |-> FALSE, plusMarker |-> FALSE,
   worktrees |-> <<>>]

InitCommon ==
  /\ locks = <<>>
  /\ tasks = <<>>
  /\ notes = <<>>
  /\ marker = NoProc
  /\ clock = 0
  /\ pc = [q \in Procs |-> "idle"]
  /\ op = [q \in Procs |-> "none"]
  /\ local = [q \in Procs |-> UNDEF]
  /\ result = NoResult
  /\ held = [p \in Paths |-> 0]
  /\ acquired = [p \in Paths |-> 0]
  /\ contexts = [r \in ProjectRoots |-> NoContext]
  /\ implementers = <<>>
  /\ discussions = <<>>
  /\ messages = <<>>

InitLocks ==
  /\ backend \in {"json", "sqlite"}
  /\ InitCommon
  /\ repo = NoRepo

NextLocks ==
  \E q \in Procs :
    \/ JsonAcquireLockCall(q)
    \/ JsonReleaseLockCall(q)
    \/ WithStateLockOpen(q)
    \/ WithStateLockTimeout(q)
    \/ JsonLoadState(q)
    \/ \E path \in Paths, owner \in OwnerInputs : JsonAcquireLockBody(q, path, owner)
    \/ \E path \in Paths, owner \in OwnerInputs : JsonReleaseLockBody(q, path, owner)
    \/ WithStateLockUnlink(q)
    \/ \E path \in Paths, owner \in OwnerInputs : SqliteAcquireLock(q, path, owner)
    \/ \E path \in Paths, owner \in OwnerInputs : SqliteReleaseLockSelect(q, path, owner)
    \/ SqliteReleaseLockUpdate(q)

SpecLocks == InitLocks /\ [][NextLocks]_vars

\* ------------------------------------------------------------------- tasks
\* nowIso(): the clock's reading as a string
NowIso == ToString(clock)

\* createTask: the new row.  crypto.randomUUID() is the row's position here.
NewTask(status, owner) ==
  [status |-> IF status = UNDEF THEN "todo" ELSE status,
   owner |-> owner,
   reviewNotes |-> UNDEF,
   reviewFeedback |-> UNDEF,
   reviewRequestedAt |-> UNDEF,
   tags |-> Absent,
   updatedAt |-> NowIso]

\* createTask with input.tags
NewTaggedTask(status, owner, tags) == [NewTask(status, owner) EXCEPT !.tags = tags]

\* an updateTask input with every optional field absent
NoFields(id) ==
  [id |-> id, status |-> UNDEF, owner |-> UNDEF, reviewNotes |-> UNDEF,
   reviewFeedback |-> UNDEF, reviewRequestedAt |-> UNDEF]

\* a plausible slip: every column is assigned from the input
PickNew(new, old) == new

\* "if (input.f !== undefined) task.f = input.f"
Pick(new, old) == IF new # UNDEF THEN new ELSE old

\* updateTask: the parsed row with the supplied fields assigned, updatedAt = nowIso()
Merged(row, in) ==
  [status |-> Pick(in.status, row.status),
   owner |-> Pick(in.owner, row.owner),
   reviewNotes |-> Pick(in.reviewNotes, row.reviewNotes),
   reviewFeedback |-> Pick(in.reviewFeedback, row.reviewFeedback),
   reviewRequestedAt |-> Pick(in.reviewRequestedAt, row.reviewRequestedAt),
   tags |-> row.tags,
   updatedAt |-> NowIso]

TaskExists(id) == id \in 1..Len(tasks)

\* a plausible slip: a task nobody owns may be submitted by anybody
SubmitOwnerOkUnowned(rowOwner, inOwner) == rowOwner = inOwner \/ rowOwner = UNDEF

\* submitTaskForReview passes "row.owner !== input.owner"
SubmitOwnerOk(rowOwner, inOwner) == rowOwner = inOwner

\* a plausible slip: work in progress may be approved as well
ApproveAllowedEarly(status) == status \in {"review", "in_progress"}

\* approveTask passes 'row.status !== "review"'
ApproveAllowed(status) == status = "review"

\* a plausible slip: the test written against the final status
RequestChangesAllowedNotDone(status) == status # "done"

\* requestTaskChanges passes 'row.status !== "review"'
RequestChangesAllowed(status) == status = "review"

\* a plausible slip: the default always taken
ApproveFeedbackDefaultOnly(feedback) == "Approved"

\* input.feedback ?? "Approved"
ApproveFeedback(feedback) == IF feedback = UNDEF THEN "Approved" ELSE feedback

\* SqliteStore.createTask: INSERT INTO tasks
SqliteCreateTaskInsert(q, task, limit) ==
  /\ backend = "sqlite"
  /\ pc[q] = "idle"
  /\ Len(tasks) < limit
  /\ tasks' = Append(tasks, task)
  /\ result' = Res("createTask", "ok")
  /\ UNCHANGED <<others, backend, locks, notes, marker, clock, pc, op, local, held, acquired>>

SqliteCreateTask(q, status, owner) == SqliteCreateTaskInsert(q, NewTask(status, owner), MaxTasks)

\* the tools of the gateway that change a task through the store
GatewayHandlers == {"task_claim", "task_update", "task_submit_for_review",
                    "task_approve", "task_request_changes"}

\* where a store method returns to: the agent's call is over, or the gateway
\* handler that awaited it goes on
ReturnTo(kind) == IF kind \in GatewayHandlers THEN "gw_return" ELSE "idle"

\* updateTask, first statement: SELECT the row, parseTask, assign the fields
UpdateTaskSelect(q, kind, args, in) ==
  /\ IF ~TaskExists(in.id)
       THEN /\ result' = Res(kind, "NotFound")
            /\ pc' = [pc EXCEPT ![q] = "idle"]
            /\ op' = [op EXCEPT ![q] = "none"]
            /\ local' = [local EXCEPT ![q] = UNDEF]
       ELSE /\ result' = NoResult
            /\ pc' = [pc EXCEPT ![q] = "upd_write"]
            /\ op' = [op EXCEPT ![q] = [kind |-> kind, args |-> args, in |-> in]]
            /\ local' = [local EXCEPT ![q] =
                           [id |-> in.id, task |-> Merged(tasks[in.id], in)]]
  /\ UNCHANGED <<others, backend, locks, tasks, notes, marker, clock, held, acquired>>

\* updateTask, second statement: UPDATE tasks SET every column WHERE id = task.id
SqliteUpdateTaskWrite(q) ==
  /\ pc[q] = "upd_write"
  /\ tasks' = [tasks EXCEPT ![local[q].id] = local[q].task]
  /\ result' = IF ReturnTo(op[q].kind) = "idle" THEN Res(op[q].kind, "ok") ELSE NoResult
  /\ pc' = [pc EXCEPT ![q] = ReturnTo(op[q].kind)]
  /\ op' = IF ReturnTo(op[q].kind) = "idle" THEN [op EXCEPT ![q] = "none"] ELSE op
  /\ local' = [local EXCEPT ![q] = UNDEF]
  /\ UNCHANGED <<others, backend, locks, notes, marker, clock, held, acquired>>

\* updateTask called by an agent (task_update passes status and owner)
SqliteUpdateTask(q, id, status, owner) ==
  /\ backend = "sqlite"
  /\ pc[q] = "idle"
  /\ UpdateTaskSelect(q, "updateTask", [id |-> id],
       [NoFields(id) EXCEPT !.status = status, !.owner = owner])

SqliteClaimTask(q, id, owner) ==
  /\ backend = "sqlite"
  /\ pc[q] = "idle"
  /\ UpdateTaskSelect(q, "claimTask", [id |-> id, owner |-> owner],
       [NoFields(id) EXCEPT !.status = "in_progress", !.owner = owner])

\* a review method has passed its own test and calls updateTask
ReviewCheckPassed(q, kind, args, in) ==
  /\ result' = NoResult
  /\ pc' = [pc EXCEPT ![q] = "upd_select"]
  /\ op' = [op EXCEPT ![q] = [kind |-> kind, args |-> args, in |-> in]]

ReviewCheckFailed(q, kind, error) ==
  /\ result' = Res(kind, error)
  /\ UNCHANGED <<pc, op>>

\* submitTaskForReview up to its call of updateTask
SubmitTaskForReviewAs(q, kind, id, owner, reviewNotes) ==
  /\ backend = "sqlite"
  /\ pc[q] = "idle"
  /\ IF ~TaskExists(id)
       THEN ReviewCheckFailed(q, kind, "NotFound")
       ELSE IF ~SubmitOwnerOk(tasks[id].owner, owner)
         THEN ReviewCheckFailed(q, kind, "OwnershipMismatch")
         ELSE ReviewCheckPassed(q, kind,
                [id |-> id, owner |-> owner, reviewNotes |-> reviewNotes],
                [NoFields(id) EXCEPT !.status = "review",
                                     !.reviewNotes = reviewNotes,
                                     !.reviewRequestedAt = NowIso])
  /\ UNCHANGED <<others, backend, locks, tasks, notes, marker, clock, local, held, acquired>>

SqliteSubmitTaskForReview(q, id, owner, reviewNotes) == SubmitTaskForReviewAs(q, "submitTaskForReview", id, owner, reviewNotes)

\* approveTask up to its call of updateTask
ApproveTaskAs(q, kind, id, feedback) ==
  /\ backend = "sqlite"
  /\ pc[q] = "idle"
  /\ IF ~TaskExists(id)
       THEN ReviewCheckFailed(q, kind, "NotFound")
       ELSE IF ~ApproveAllowed(tasks[id].status)
         THEN ReviewCheckFailed(q, kind, "InvalidTransition")
         ELSE ReviewCheckPassed(q, kind,
                [id |-> id, feedback |-> feedback],
                [NoFields(id) EXCEPT !.status = "done",
                                     !.reviewFeedback = ApproveFeedback(feedback)])
  /\ UNCHANGED <<others, backend, locks, tasks, notes, marker, clock, local, held, acquired>>

SqliteApproveTask(q, id, feedback) == ApproveTaskAs(q, "approveTask", id, feedback)

\* requestTaskChanges up to its call of updateTask
RequestTaskChangesAs(q, kind, id, feedback) ==
  /\ backend = "sqlite"
  /\ pc[q] = "idle"
  /\ IF ~TaskExists(id)
       THEN ReviewCheckFailed(q, kind, "NotFound")
       ELSE IF ~RequestChangesAllowed(tasks[id].status)
         THEN ReviewCheckFailed(q, kind, "InvalidTransition")
         ELSE ReviewCheckPassed(q, kind,
                [id |-> id, feedback |-> feedback],
                [NoFields(id) EXCEPT !.status = "in_progress",
                                     !.reviewFeedback = feedback])
  /\ UNCHANGED <<others, backend, locks, tasks, notes, marker, clock, local, held, acquired>>

SqliteRequestTaskChanges(q, id, feedback) == RequestTaskChangesAs(q, "requestTaskChanges", id, feedback)

\* the updateTask a review method calls: its SELECT
SqliteReviewUpdateSelect(q) ==
  /\ pc[q] = "upd_select"
  /\ UpdateTaskSelect(q, op[q].kind, op[q].args, op[q].in)

\* ------------------------------------------------------ specification: tasks
InitTasks ==
  /\ backend = "sqlite"
  /\ InitCommon
  /\ repo = NoRepo

NextTasks ==
  \E q \in Reviewers :
       \/ \E st \in Statuses \cup {UNDEF}, o \in TaskOwnerInputs : SqliteCreateTask(q, st, o)
       \/ \E id \in TaskIds, st \in Statuses \cup {UNDEF}, o \in TaskOwnerInputs :
            SqliteUpdateTask(q, id, st, o)
       \/ \E id \in TaskIds, o \in Owners : SqliteClaimTask(q, id, o)
       \/ \E id \in TaskIds, o \in Owners, n \in ReviewNotes :
            SqliteSubmitTaskForReview(q, id, o, n)
       \/ \E id \in TaskIds, f \in Feedbacks \cup {UNDEF} : SqliteApproveTask(q, id, f)
       \/ \E id \in TaskIds, f \in Feedbacks : SqliteRequestTaskChanges(q, id, f)
       \/ SqliteReviewUpdateSelect(q)
       \/ SqliteUpdateTaskWrite(q)

SpecTasks == InitTasks /\ [][NextTasks]_vars

\* ------------------------------------------------------------ lock claims
RecordsOf(ls, path) == {i \in 1..Len(ls) : ls[i].path = path}

\* the step in which an acquireLock call tests for an active lock and decides
AcquireDecides(q, path, owner) ==
  JsonAcquireLockBody(q, path, owner) \/ SqliteAcquireLock(q, path, owner)

\* the step in which a releaseLock call finds the lock and tests its owner
ReleaseDecides(q, path, owner) ==
  JsonReleaseLockBody(q, path, owner) \/ SqliteReleaseLockSelect(q, path, owner)

\* C1: in every reachable state of either backend each path has at most one
\* active Lock record, and of the acquireLock calls on one path at most one
\* has succeeded since the last successful release of that path, however the
\* calls of the processes interleave.
C1_AtMostOneActive ==
  \A p \in Paths : Cardinality(ActiveAt(locks, p)) <= 1 /\ held[p] <= 1

\* two acquireLock calls are in flight together and one of them has just won
C1_Witness ==
  \E q1, q2 \in Procs :
    /\ q1 # q2
    /\ pc[q1] = "unlink" /\ op[q1] = "acquireLock"
    /\ result = Res("acquireLock", "ok")
    /\ pc[q2] = "wait" /\ op[q2] = "acquireLock"

\* C2: once the lock of owner A on a path has been released (its record is
\* resolved and the path has no active record), acquireLock on that path by
\* another owner B succeeds and leaves an active lock on the path owned by B.
C2_ReacquireAfterRelease ==
  [][\A q \in Procs, path \in Paths, b \in Owners :
       ( /\ AcquireDecides(q, path, b)
         /\ ActiveAt(locks, path) = {}
         /\ \E i \in RecordsOf(locks, path) :
              locks[i].status = "resolved" /\ locks[i].owner \in Owners \ {b} )
       => /\ result' = Res("acquireLock", "ok")
          /\ \E i \in ActiveAt(locks', path) : locks'[i].owner = b]_vars

\* C3: an acquireLock call that runs its existence test while the path has an
\* active lock ends with the lock-conflict error, whoever calls it, and
\* leaves every Lock record as it was.
C3_AcquireConflict ==
  [][\A q \in Procs, path \in Paths, owner \in OwnerInputs :
       (AcquireDecides(q, path, owner) /\ ActiveAt(locks, path) # {})
       => result' = Res("acquireLock", "LockConflict") /\ locks' = locks]_vars

\* the current holder has asked again and was refused
C3_Witness ==
  /\ result = Res("acquireLock", "LockConflict")
  /\ \E p \in Paths : ActiveAt(locks, p) # {}

\* C4: a releaseLock call with a non-empty owner, on a path whose active lock
\* has another non-empty owner, ends with the ownership-mismatch error and
\* leaves every Lock record as it was (the lock active, its owner unchanged).
C4_ReleaseWrongOwner ==
  [][\A q \in Procs, path \in Paths, owner \in Owners :
       ( /\ ReleaseDecides(q, path, owner)
         /\ ActiveAt(locks, path) # {}
         /\ locks[FirstOf(ActiveAt(locks, path))].owner \in Owners \ {owner} )
       => result' = Res("releaseLock", "OwnershipMismatch") /\ locks' = locks]_vars

C4_Witness ==
  /\ result = Res("releaseLock", "OwnershipMismatch")
  /\ \E p \in Paths : \E i \in ActiveAt(locks, p) : locks[i].owner \in Owners

C6_SubmitWrongOwner ==
  [][\A q \in Procs, id \in TaskIds, owner \in Owners, n \in ReviewNotes :
       ( /\ SqliteSubmitTaskForReview(q, id, owner, n)
         /\ TaskExists(id)
         /\ tasks[id].owner # owner )
       => /\ result' = Res("submitTaskForReview", "OwnershipMismatch")
          /\ pc'[q] = "idle"
          /\ tasks' = tasks]_vars

\* a submit for a task nobody owns has been refused
C6_Witness ==
  /\ result = Res("submitTaskForReview", "OwnershipMismatch")
  /\ \E id \in 1..Len(tasks) : tasks[id].owner = UNDEF

\* C7: approveTask on an existing task whose status is not review ends with
\* the invalid-transition error, runs no update, and leaves the task (status
\* and reviewFeedback included) as it was.
C7_ApproveNotInReview ==
  [][\A q \in Procs, id \in TaskIds, f \in Feedbacks \cup {UNDEF} :
       ( /\ SqliteApproveTask(q, id, f)
         /\ TaskExists(id)
         /\ tasks[id].status \in Statuses \ {"review"} )
       => /\ result' = Res("approveTask", "InvalidTransition")
          /\ pc'[q] = "idle"
          /\ tasks' = tasks]_vars

C7_Witness ==
  /\ result = Res("approveTask", "InvalidTransition")
  /\ \E id \in 1..Len(tasks) : tasks[id].status = "in_progress"

\* C8: requestTaskChanges on a task whose status is not review fails, runs no
\* update, and leaves the task (status, owner, reviewFeedback, updatedAt) as
\* it was.
C8_RequestChangesNotInReview ==
  [][\A q \in Procs, id \in TaskIds, f \in Feedbacks :
       ( /\ SqliteRequestTaskChanges(q, id, f)
         /\ TaskExists(id)
         /\ tasks[id].status # "review" )
       => /\ result'.kind = "requestTaskChanges"
          /\ result'.out \notin {"ok", "none"}
          /\ pc'[q] = "idle"
          /\ tasks' = tasks]_vars

C8_Witness ==
  /\ result.kind = "requestTaskChanges" /\ result.out = "InvalidTransition"
  /\ \E id \in 1..Len(tasks) : tasks[id].status = "done"

\* C9: a task's status becomes done only by approveTask applied to a task in
\* review, or by updateTask applied to a task in todo or in_progress; no task
\* is created done and no other step turns a task done.
C9_DoneOnlyByReviewOrDirect ==
  [][ /\ Len(tasks') > Len(tasks) => tasks'[Len(tasks')].status # "done"
      /\ \A id \in 1..Len(tasks) :
           (tasks[id].status # "done" /\ tasks'[id].status = "done")
           => \/ result'.kind = "approveTask" /\ tasks[id].status = "review"
              \/ /\ result'.kind = "updateTask"
                 /\ tasks[id].status \in {"todo", "in_progress"} ]_vars

\* C10: claimTask(owner) leaves the task in_progress and owned by owner; the
\* owner's submitTaskForReview(notes) is then accepted and leaves it in review
\* with the notes; approveTask(feedback) on the task in review is accepted
\* and leaves it done with reviewFeedback the feedback, or "Approved" when
\* none was supplied.
C10_ReviewWorkflow ==
  [][\A q \in Procs :
       /\ \A id \in TaskIds, o \in Owners :
            (SqliteClaimTask(q, id, o) /\ TaskExists(id)) => pc'[q] = "upd_write"
       /\ \A id \in TaskIds, o \in Owners, n \in ReviewNotes :
            ( /\ SqliteSubmitTaskForReview(q, id, o, n)
              /\ TaskExists(id)
              /\ tasks[id].owner = o ) => pc'[q] = "upd_select"
       /\ \A id \in TaskIds, f \in Feedbacks \cup {UNDEF} :
            ( /\ SqliteApproveTask(q, id, f)
              /\ TaskExists(id)
              /\ tasks[id].status = "review" ) => pc'[q] = "upd_select"
       /\ (pc[q] = "upd_write" /\ pc'[q] = "idle")
          => LET t == tasks'[local[q].id]
                 a == op[q].args
             IN  /\ op[q].kind = "claimTask"
                    => t.status = "in_progress" /\ t.owner = a.owner
                 /\ op[q].kind = "submitTaskForReview"
                    => t.status = "review" /\ t.reviewNotes = a.reviewNotes
                 /\ op[q].kind = "approveTask"
                    => /\ t.status = "done"
                       /\ t.reviewFeedback =
                            (IF a.feedback = UNDEF THEN "Approved" ELSE a.feedback) ]_vars

\* a task was claimed, submitted with notes and approved with feedback "LGTM"
C10_Witness ==
  /\ result = Res("approveTask", "ok")
  /\ \E id \in 1..Len(tasks) :
       /\ tasks[id].status = "done"
       /\ tasks[id].owner \in Owners
       /\ tasks[id].reviewNotes \in ReviewNotes
       /\ tasks[id].reviewRequestedAt # UNDEF
       /\ tasks[id].reviewFeedback = "LGTM"

\* ------------------------------------------------- JsonStore task methods
JsonCreateTaskCall(q) ==
  /\ backend = "json"
  /\ Len(tasks) + InFlight("createTask") < MaxTasks
  /\ JsonBegin(q, "createTask")

JsonUpdateTaskCall(q) == JsonBegin(q, "updateTask")

\* claimTask is updateTask({id, owner, status: "in_progress"})
JsonClaimTaskCall(q) == JsonBegin(q, "claimTask")

\* JsonStore.createTask's critical section: state.tasks.push(task), saveState
JsonCreateTaskPush(q, task) ==
  /\ pc[q] = "body"
  /\ op[q] = "createTask"
  /\ BodyDone(q)
  /\ SaveState([local[q] EXCEPT !.tasks = Append(@, task)])
  /\ result' = Res("createTask", "ok")
  /\ UNCHANGED <<others, held, acquired>>

JsonCreateTaskBody(q, status, owner) == JsonCreateTaskPush(q, NewTask(status, owner))

\* updateTask's critical section: find the task in the loaded document, assign
\* the supplied fields, save the document
JsonUpdateTaskBody(q, kind, id, status, owner) ==
  /\ pc[q] = "body"
  /\ op[q] = kind
  /\ BodyDone(q)
  /\ IF id \notin 1..Len(local[q].tasks)
       THEN /\ result' = Res(kind, "NotFound")
            /\ UNCHANGED <<locks, tasks, notes>>
       ELSE /\ SaveState([local[q] EXCEPT !.tasks[id] =
                 Merged(@, [NoFields(id) EXCEPT !.status = status, !.owner = owner])])
            /\ result' = Res(kind, "ok")
  /\ UNCHANGED <<others, held, acquired>>

\* ---------------------------------------------- specification: claim race
\* tasks are created with the defaults and then only claimed, by two agents
InitClaim ==
  /\ backend \in {"json", "sqlite"}
  /\ InitCommon
  /\ repo = NoRepo

NextClaim ==
  \E q \in Procs :
    \/ JsonCreateTaskCall(q)
    \/ JsonClaimTaskCall(q)
    \/ WithStateLockOpen(q)
    \/ WithStateLockTimeout(q)
    \/ JsonLoadState(q)
    \/ JsonCreateTaskBody(q, UNDEF, UNDEF)
    \/ \E id \in TaskIds, o \in Owners : JsonUpdateTaskBody(q, "claimTask", id, "in_progress", o)
    \/ WithStateLockUnlink(q)
    \/ SqliteCreateTask(q, UNDEF, UNDEF)
    \/ \E id \in TaskIds, o \in Owners : SqliteClaimTask(q, id, o)
    \/ SqliteUpdateTaskWrite(q)

SpecClaim == InitClaim /\ [][NextClaim]_vars

\* C11: once a claimTask has been applied to a task, the task stays owned by
\* that first claimer: no later claimTask, however the two agents' calls
\* interleave, changes the owner.
C11_FirstClaimerWins ==
  [][\A id \in 1..Len(tasks) :
       Truthy(tasks[id].owner) => tasks'[id].owner = tasks[id].owner]_vars

\* ------------------------------------------------- gateway: the task tools
\* bound on the number of notes before the tools that append one stop being called
MaxNotes == 3

NoteTexts == {"[REVIEW]", "[APPROVED]", "[CHANGES REQUESTED]", "[SYSTEM] ALL TASKS COMPLETE!"}

\* appendNote's record
Note(text, author) == [text |-> text, author |-> author, createdAt |-> NowIso]

\* listTasks({status}): the ids of the rows with that status
ListTasks(status) == {id \in 1..Len(tasks) : tasks[id].status = status}

\* task_claim: store.claimTask
GwTaskClaim(q, id, owner) ==
  /\ backend = "sqlite"
  /\ pc[q] = "idle"
  /\ UpdateTaskSelect(q, "task_claim", [id |-> id, owner |-> owner],
       [NoFields(id) EXCEPT !.status = "in_progress", !.owner = owner])

\* task_update: store.updateTask with the tool's arguments
GwTaskUpdate(q, id, newStatus, owner) ==
  /\ backend = "sqlite"
  /\ pc[q] = "idle"
  /\ Len(notes) + 1 <= MaxNotes
  /\ UpdateTaskSelect(q, "task_update", [id |-> id],
       [NoFields(id) EXCEPT !.status = newStatus, !.owner = owner])

GwTaskSubmitForReview(q, id, owner, reviewNotes) ==
  /\ Len(notes) + 1 <= MaxNotes
  /\ SubmitTaskForReviewAs(q, "task_submit_for_review", id, owner, reviewNotes)

GwTaskApprove(q, id, feedback) ==
  /\ Len(notes) + 2 <= MaxNotes
  /\ ApproveTaskAs(q, "task_approve", id, feedback)

GwTaskRequestChanges(q, id, feedback) ==
  /\ Len(notes) + 1 <= MaxNotes
  /\ RequestTaskChangesAs(q, "task_request_changes", id, feedback)

\* the handler returns jsonResponse(task)
GwFinish(q) ==
  /\ pc' = [pc EXCEPT ![q] = "idle"]
  /\ op' = [op EXCEPT ![q] = "none"]
  /\ local' = [local EXCEPT ![q] = UNDEF]
  /\ result' = Res(op[q].kind, "ok")

\* the handler goes on to "Check if all tasks are now complete"
GwCheckComplete(q) ==
  /\ pc' = [pc EXCEPT ![q] = "gw_list_todo"]
  /\ result' = NoResult
  /\ UNCHANGED <<op, local>>

\* task_claim after store.claimTask returned
GwTaskClaimReturn(q) ==
  /\ pc[q] = "gw_return"
  /\ op[q].kind = "task_claim"
  /\ GwFinish(q)
  /\ UNCHANGED <<others, backend, locks, tasks, notes, marker, clock, held, acquired>>

\* task_update after store.updateTask returned: if (newStatus === "done")
GwTaskUpdateReturn(q) ==
  /\ pc[q] = "gw_return"
  /\ op[q].kind = "task_update"
  /\ IF op[q].in.status = "done" THEN GwCheckComplete(q) ELSE GwFinish(q)
  /\ UNCHANGED <<others, backend, locks, tasks, notes, marker, clock, held, acquired>>

\* the note a review tool appends after its store method returned
GwNotifyText(kind) ==
  CASE kind = "task_submit_for_review" -> "[REVIEW]"
    [] kind = "task_approve" -> "[APPROVED]"
    [] kind = "task_request_changes" -> "[CHANGES REQUESTED]"

GwNotify(q) ==
  /\ pc[q] = "gw_return"
  /\ op[q].kind \in {"task_submit_for_review", "task_approve", "task_request_changes"}
  /\ notes' = Append(notes, Note(GwNotifyText(op[q].kind), "system"))
  /\ IF op[q].kind = "task_approve" THEN GwCheckComplete(q) ELSE GwFinish(q)
  /\ UNCHANGED <<others, backend, locks, tasks, marker, clock, held, acquired>>

\* the three listTasks calls, one after the other, then the test of their lengths
GwListTasks(q) ==
  /\ pc[q] \in {"gw_list_todo", "gw_list_in_progress", "gw_list_review"}
  /\ LET status == CASE pc[q] = "gw_list_todo" -> "todo"
                     [] pc[q] = "gw_list_in_progress" -> "in_progress"
                     [] pc[q] = "gw_list_review" -> "review"
         sofar == IF pc[q] = "gw_list_todo" THEN {} ELSE local[q]
         seen == sofar \cup ListTasks(status)
     IN  IF pc[q] = "gw_list_review"
           THEN IF seen = {}
                  THEN /\ pc' = [pc EXCEPT ![q] = "gw_complete"]
                       /\ result' = NoResult
                       /\ UNCHANGED <<op, local>>
                  ELSE GwFinish(q)
           ELSE /\ pc' = [pc EXCEPT ![q] = IF pc[q] = "gw_list_todo"
                                             THEN "gw_list_in_progress"
                                             ELSE "gw_list_review"]
                /\ local' = [local EXCEPT ![q] = seen]
                /\ result' = NoResult
                /\ UNCHANGED op
  /\ UNCHANGED <<others, backend, locks, tasks, notes, marker, clock, held, acquired>>

\* "All tasks complete - notify planner"
GwAppendComplete(q) ==
  /\ pc[q] = "gw_complete"
  /\ notes' = Append(notes, Note("[SYSTEM] ALL TASKS COMPLETE!", "system"))
  /\ GwFinish(q)
  /\ UNCHANGED <<others, backend, locks, tasks, marker, clock, held, acquired>>

\* ------------------------------------------------- specification: gateway
\* one gateway process serving the task tools over the relational store
InitGateway ==
  /\ backend = "sqlite"
  /\ InitCommon
  /\ repo = NoRepo

NextGateway ==
  \E q \in Reviewers :
    \/ \E st \in Statuses \cup {UNDEF}, o \in TaskOwnerInputs : SqliteCreateTask(q, st, o)
    \/ \E id \in TaskIds, o \in Owners : GwTaskClaim(q, id, o)
    \/ \E id \in TaskIds, st \in Statuses \cup {UNDEF}, o \in TaskOwnerInputs :
         GwTaskUpdate(q, id, st, o)
    \/ \E id \in TaskIds, o \in Owners, n \in ReviewNotes : GwTaskSubmitForReview(q, id, o, n)
    \/ \E id \in TaskIds, f \in Feedbacks \cup {UNDEF} : GwTaskApprove(q, id, f)
    \/ \E id \in TaskIds, f \in Feedbacks : GwTaskRequestChanges(q, id, f)
    \/ SqliteReviewUpdateSelect(q)
    \/ SqliteUpdateTaskWrite(q)
    \/ GwTaskClaimReturn(q)
    \/ GwTaskUpdateReturn(q)
    \/ GwNotify(q)
    \/ GwListTasks(q)
    \/ GwAppendComplete(q)

SpecGateway == InitGateway /\ [][NextGateway]_vars

\* a task tool returns its response in this step
GwReturns(q) ==
  /\ pc[q] \in {"gw_return", "gw_list_review", "gw_complete"}
  /\ pc'[q] = "idle"
  /\ result'.out = "ok"

\* C12: whenever a task tool that set a task's status returns and no task is
\* left in todo, in_progress or review, the tool has appended the system note
\* announcing completion (the append is the last thing the tool does).
C12_CompletionNote ==
  [][\A q \in Reviewers :
       ( /\ GwReturns(q)
         /\ op[q].in.status # UNDEF
         /\ \A id \in 1..Len(tasks') : tasks'[id].status \notin {"todo", "in_progress", "review"} )
       => /\ Len(notes') = Len(notes) + 1
          /\ notes'[Len(notes')].text = "[SYSTEM] ALL TASKS COMPLETE!"
          /\ notes'[Len(notes')].author = "system"]_vars

\* ------------------------------------------ specification: concurrent updates
\* two agents update and claim the tasks of one store at the same time
InitRace ==
  /\ backend \in {"json", "sqlite"}
  /\ InitCommon
  /\ repo = NoRepo

\* the statuses and owners the two agents pass to updateTask here
RaceStatuses == {UNDEF, "blocked", "done"}

NextRace ==
  \E q \in Procs :
    \/ JsonCreateTaskCall(q)
    \/ JsonUpdateTaskCall(q)
    \/ JsonClaimTaskCall(q)
    \/ WithStateLockOpen(q)
    \/ WithStateLockTimeout(q)
    \/ JsonLoadState(q)
    \/ JsonCreateTaskBody(q, UNDEF, UNDEF)
    \/ \E id \in TaskIds, st \in RaceStatuses, o \in TaskOwnerInputs :
         JsonUpdateTaskBody(q, "updateTask", id, st, o)
    \/ \E id \in TaskIds, o \in Owners : JsonUpdateTaskBody(q, "claimTask", id, "in_progress", o)
    \/ WithStateLockUnlink(q)
    \/ SqliteCreateTask(q, UNDEF, UNDEF)
    \/ \E id \in TaskIds, st \in RaceStatuses, o \in TaskOwnerInputs :
         SqliteUpdateTask(q, id, st, o)
    \/ \E id \in TaskIds, o \in Owners : SqliteClaimTask(q, id, o)
    \/ SqliteUpdateTaskWrite(q)

SpecRace == InitRace /\ [][NextRace]_vars

\* the fields of a task an update may or may not supply
TaskFields == {"status", "owner", "reviewNotes", "reviewFeedback", "reviewRequestedAt"}

\* C14: task updates of two agents take effect one after the other: the step
\* that applies an update changes, in the stored task, only the fields that
\* update supplied, so no field written by the other agent in the meantime
\* is lost.
C14_NoLostUpdate ==
  [][\A q \in Procs :
       /\ SqliteUpdateTaskWrite(q)
            => \A f \in TaskFields :
                 op[q].in[f] = UNDEF
                   => tasks'[local[q].id][f] = tasks[local[q].id][f]
       /\ \A kind \in {"updateTask", "claimTask"}, id \in 1..Len(tasks),
             st \in Statuses \cup {UNDEF}, o \in TaskOwnerInputs :
            JsonUpdateTaskBody(q, kind, id, st, o)
              => /\ st = UNDEF => tasks'[id].status = tasks[id].status
                 /\ o = UNDEF => tasks'[id].owner = tasks[id].owner]_vars

\* ------------------------------------------- SqliteStore discussion methods
\* bounds on the rows createDiscussion / replyToDiscussion are called for
MaxDiscussions == 1
MaxMessages == 2
\* bound on the days the clock of the discussion specifications advances
MaxClock == 1

\* "a < b" on two toISOString() values: strings of one fixed layout, which
\* compare as their instants do; a NULL column compares as false
IsoLess(a, b) == a # NoTime /\ a < b

\* olderThanDays of the two bulk methods: absent, or 0 or 1 days
NoDays == 0 - 1
DaysInputs == {NoDays, 0, 1}
WaitingOnInputs == {UNDEF, "impl-1"}
DiscussionIds == 1..(MaxDiscussions + 1)

\* (of a discussion's columns the model keeps status, project_root, waiting_on,
\* resolved_at and archived_at; of a message's, discussion_id)
\* the row a DELETE has removed: the id is never handed out again
Deleted == [status |-> "deleted", projectRoot |-> UNDEF, waitingOn |-> UNDEF,
            resolvedAt |-> NoTime, archivedAt |-> NoTime, decision |-> UNDEF]

\* what resolveDiscussion is called with (decision, reasoning and decidedBy
\* are written by the same statement and kept as one column here)
ResolveDecision == "use sqlite; simpler; planner"

\* SELECT * FROM discussions WHERE id = ? finds a row
DiscussionExists(id) ==
  id \in 1..Len(discussions) /\ discussions[id].status # "deleted"

MessagesOf(id) == {i \in 1..Len(messages) : messages[i].discussionId = id}

\* a plausible slip: the connection opened with foreign keys off
ForeignKeysOff == FALSE

\* discussion_messages.discussion_id REFERENCES discussions(id), enforced by
\* the connection (the driver's default); deleteArchivedDiscussions relies on it
ForeignKeysEnforced == TRUE

\* a plausible slip: only archived discussions are closed for replies
ReplyAllowedUnlessArchived(status) == status # "archived"

\* replyToDiscussion passes 'row.status === "resolved" || row.status === "archived"'
ReplyAllowed(status) == status \notin {"resolved", "archived"}

\* a plausible slip: the status is not recomputed from waitingOn
StatusForOpen(waitingOn) == "open"

\* input.waitingOn ? "waiting" : "open"
StatusFor(waitingOn) == IF Truthy(waitingOn) THEN "waiting" ELSE "open"

\* options.olderThanDays ?? 7
ArchiveDays(days) == IF days = NoDays THEN 7 ELSE days

\* options.olderThanDays ?? 30
DeleteDays(days) == IF days = NoDays THEN 30 ELSE days

\* new Date(Date.now() - days * 24 * 60 * 60 * 1000): the clock counts days
Cutoff(days) == clock - days

\* "if (options.projectRoot) sql += ' AND project_root = ?'"
RootMatches(root, row) == Truthy(root) => row.projectRoot = root

\* a plausible slip: the age test left out of the WHERE clause
ArchiveSelectsAnyAge(row, cutoff, root) ==
  row.status = "resolved" /\ RootMatches(root, row)

\* WHERE status = 'resolved' AND resolved_at < cutoff [AND project_root = ?]
ArchiveSelects(row, cutoff, root) ==
  row.status = "resolved" /\ IsoLess(row.resolvedAt, cutoff) /\ RootMatches(root, row)

\* WHERE status = 'archived' AND archived_at < cutoff [AND project_root = ?]
DeleteSelects(row, cutoff, root) ==
  row.status = "archived" /\ IsoLess(row.archivedAt, cutoff) /\ RootMatches(root, row)

\* calls that have still to insert a message
PendingMessages == Cardinality({q \in Procs : pc[q] \in {"cd_msg", "rd_msg"}})

\* a method of the store returns or throws
DiscDone(q, kind, out) ==
  /\ pc' = [pc EXCEPT ![q] = "idle"]
  /\ op' = [op EXCEPT ![q] = "none"]
  /\ local' = [local EXCEPT ![q] = UNDEF]
  /\ result' = Res(kind, out)

\* a method of the store goes on to its next statement
DiscGoto(q, kind, next, loc) ==
  /\ pc' = [pc EXCEPT ![q] = next]
  /\ op' = [op EXCEPT ![q] = kind]
  /\ local' = [local EXCEPT ![q] = loc]
  /\ result' = NoResult

\* createDiscussion, first statement: now = nowIso(); INSERT INTO discussions
CreateDiscussionInsert(q, root, waitingOn) ==
  /\ backend = "sqlite"
  /\ pc[q] = "idle"
  /\ discussions' = Append(discussions,
       [status |-> StatusFor(waitingOn), projectRoot |-> root, waitingOn |-> waitingOn,
        resolvedAt |-> NoTime, archivedAt |-> NoTime, decision |-> UNDEF])
  /\ DiscGoto(q, "createDiscussion", "cd_msg", [id |-> Len(discussions) + 1, now |-> clock])
  /\ UNCHANGED <<repo, backend, locks, tasks, notes, marker, clock, held, acquired,
                 contexts, implementers, messages>>

\* INSERT INTO discussion_messages: fails when the discussion row is gone
InsertMessage(q, kind, next) ==
  IF ForeignKeysEnforced /\ ~DiscussionExists(local[q].id)
    THEN /\ DiscDone(q, kind, "ConstraintError")
         /\ UNCHANGED messages
    ELSE /\ messages' = Append(messages, [discussionId |-> local[q].id])
         /\ IF next = "idle" THEN DiscDone(q, kind, "ok")
                             ELSE DiscGoto(q, kind, next, local[q])

\* createDiscussion, second statement: the first message
CreateDiscussionMessage(q) ==
  /\ pc[q] = "cd_msg"
  /\ InsertMessage(q, "createDiscussion", "idle")
  /\ UNCHANGED <<repo, backend, locks, tasks, notes, marker, clock, held, acquired,
                 contexts, implementers, discussions>>

\* replyToDiscussion, first statement: SELECT the discussion, test its status
ReplySelect(q, id, waitingOn) ==
  /\ backend = "sqlite"
  /\ pc[q] = "idle"
  /\ IF ~DiscussionExists(id)
       THEN DiscDone(q, "replyToDiscussion", "NotFound")
       ELSE IF ~ReplyAllowed(discussions[id].status)
         THEN DiscDone(q, "replyToDiscussion", "CannotReply")
         ELSE DiscGoto(q, "replyToDiscussion", "rd_msg",
                       [id |-> id, now |-> clock, waitingOn |-> waitingOn])
  /\ UNCHANGED <<repo, backend, locks, tasks, notes, marker, clock, held, acquired,
                 contexts, implementers, discussions, messages>>

\* replyToDiscussion, second statement: INSERT the message
ReplyInsertMessage(q) ==
  /\ pc[q] = "rd_msg"
  /\ InsertMessage(q, "replyToDiscussion", "rd_update")
  /\ UNCHANGED <<repo, backend, locks, tasks, notes, marker, clock, held, acquired,
                 contexts, implementers, discussions>>

\* UPDATE discussions SET ... WHERE id = ?: no row, no change
UpdateDiscussion(id, row) ==
  discussions' = IF DiscussionExists(id) THEN [discussions EXCEPT ![id] = row]
                                         ELSE discussions

\* replyToDiscussion, third statement: UPDATE status, waiting_on, updated_at
ReplyUpdate(q) ==
  /\ pc[q] = "rd_update"
  /\ UpdateDiscussion(local[q].id,
       [discussions[local[q].id] EXCEPT !.status = StatusFor(local[q].waitingOn),
                                        !.waitingOn = local[q].waitingOn])
  /\ DiscGoto(q, op[q], "reread", local[q])
  /\ UNCHANGED <<repo, backend, locks, tasks, notes, marker, clock, held, acquired,
                 contexts, implementers, messages>>

\* last statement of reply, resolve and archive: SELECT the row again and
\* parseDiscussion(updated), which throws on a row that is gone
DiscussionReread(q) ==
  /\ pc[q] = "reread"
  /\ DiscDone(q, op[q], IF DiscussionExists(local[q].id) THEN "ok" ELSE "TypeError")
  /\ UNCHANGED <<repo, backend, locks, tasks, notes, marker, clock, held, acquired,
                 contexts, implementers, discussions, messages>>

\* resolveDiscussion and archiveDiscussion, first statement: SELECT the row
DiscussionSelect(q, kind, id) ==
  /\ backend = "sqlite"
  /\ pc[q] = "idle"
  /\ IF ~DiscussionExists(id)
       THEN DiscDone(q, kind, "NotFound")
       ELSE DiscGoto(q, kind, "update", [id |-> id, now |-> clock])
  /\ UNCHANGED <<repo, backend, locks, tasks, notes, marker, clock, held, acquired,
                 contexts, implementers, discussions, messages>>

ResolveSelect(q, id) == DiscussionSelect(q, "resolveDiscussion", id)

ArchiveSelect(q, id) == DiscussionSelect(q, "archiveDiscussion", id)

\* a plausible slip: waiting_on = NULL left out of the UPDATE
ResolvedStillWaiting(row, decision, now) ==
  [row EXCEPT !.status = "resolved", !.decision = decision, !.resolvedAt = now]

\* UPDATE discussions SET status = 'resolved', decision = ?, decision_reasoning = ?,
\* decided_by = ?, waiting_on = NULL, resolved_at = ?, updated_at = ?
Resolved(row, decision, now) ==
  [row EXCEPT !.status = "resolved", !.decision = decision, !.waitingOn = UNDEF,
              !.resolvedAt = now]

\* resolveDiscussion, second statement
ResolveUpdate(q) ==
  /\ pc[q] = "update"
  /\ op[q] = "resolveDiscussion"
  /\ UpdateDiscussion(local[q].id,
       Resolved(discussions[local[q].id], ResolveDecision, local[q].now))
  /\ DiscGoto(q, op[q], "reread", local[q])
  /\ UNCHANGED <<repo, backend, locks, tasks, notes, marker, clock, held, acquired,
                 contexts, implementers, messages>>

\* archiveDiscussion, second statement
ArchiveUpdate(q) ==
  /\ pc[q] = "update"
  /\ op[q] = "archiveDiscussion"
  /\ UpdateDiscussion(local[q].id,
       [discussions[local[q].id] EXCEPT !.status = "archived",
                                        !.archivedAt = local[q].now])
  /\ DiscGoto(q, op[q], "reread", local[q])
  /\ UNCHANGED <<repo, backend, locks, tasks, notes, marker, clock, held, acquired,
                 contexts, implementers, messages>>

\* the rows archiveOldDiscussions' UPDATE matches
ArchiveMatching(cutoff, root) ==
  {id \in 1..Len(discussions) :
     DiscussionExists(id) /\ ArchiveSelects(discussions[id], cutoff, root)}

\* the rows deleteArchivedDiscussions' SELECT returns
DeleteMatching(cutoff, root) ==
  {id \in 1..Len(discussions) :
     DiscussionExists(id) /\ DeleteSelects(discussions[id], cutoff, root)}

\* archiveOldDiscussions: one UPDATE statement; returns result.changes
ArchiveOldDiscussions(q, days, root) ==
  /\ backend = "sqlite"
  /\ pc[q] = "idle"
  /\ LET hit == ArchiveMatching(Cutoff(ArchiveDays(days)), root) IN
       /\ discussions' = [id \in 1..Len(discussions) |->
            IF id \in hit
              THEN [discussions[id] EXCEPT !.status = "archived", !.archivedAt = clock]
              ELSE discussions[id]]
       /\ result' = [kind |-> "archiveOldDiscussions", out |-> "ok",
                     count |-> Cardinality(hit)]
  /\ UNCHANGED <<repo, backend, locks, tasks, notes, marker, clock, pc, op, local, held, acquired,
                 contexts, implementers, messages>>

\* deleteArchivedDiscussions, first statement: SELECT the ids to delete
DeleteArchivedSelect(q, days, root) ==
  /\ backend = "sqlite"
  /\ pc[q] = "idle"
  /\ LET ids == DeleteMatching(Cutoff(DeleteDays(days)), root) IN
       IF ids = {}
         THEN /\ result' = [kind |-> "deleteArchivedDiscussions", out |-> "ok", count |-> 0]
              /\ UNCHANGED <<pc, op, local>>
         ELSE DiscGoto(q, "deleteArchivedDiscussions", "dad_msgs", ids)
  /\ UNCHANGED <<repo, backend, locks, tasks, notes, marker, clock, held, acquired,
                 contexts, implementers, discussions, messages>>

\* a plausible slip: the messages are left to the discussions' DELETE
KeepMessages(ms, ids) == ms

\* DELETE FROM discussion_messages WHERE discussion_id IN (ids)
DeleteMessages(ms, ids) == SelectSeq(ms, LAMBDA m : m.discussionId \notin ids)

\* deleteArchivedDiscussions, second statement: "Delete messages first"
DeleteArchivedMessages(q) ==
  /\ pc[q] = "dad_msgs"
  /\ messages' = DeleteMessages(messages, local[q])
  /\ DiscGoto(q, op[q], "dad_disc", local[q])
  /\ UNCHANGED <<repo, backend, locks, tasks, notes, marker, clock, held, acquired,
                 contexts, implementers, discussions>>

\* deleteArchivedDiscussions, third statement: DELETE FROM discussions WHERE
\* id IN (ids); a row a message still refers to makes the statement fail
DeleteArchivedRows(q) ==
  /\ pc[q] = "dad_disc"
  /\ LET rows == {id \in local[q] : DiscussionExists(id)} IN
       IF ForeignKeysEnforced /\ \E id \in rows : MessagesOf(id) # {}
         THEN /\ DiscDone(q, "deleteArchivedDiscussions", "ConstraintError")
              /\ UNCHANGED discussions
         ELSE /\ discussions' = [id \in 1..Len(discussions) |->
                                   IF id \in rows THEN Deleted ELSE discussions[id]]
              /\ pc' = [pc EXCEPT ![q] = "idle"]
              /\ op' = [op EXCEPT ![q] = "none"]
              /\ local' = [local EXCEPT ![q] = UNDEF]
              /\ result' = [kind |-> "deleteArchivedDiscussions", out |-> "ok",
                            count |-> Cardinality(rows)]
  /\ UNCHANGED <<repo, backend, locks, tasks, notes, marker, clock, held, acquired,
                 contexts, implementers, messages>>

\* a day passes
Tick ==
  /\ clock < MaxClock
  /\ clock' = clock + 1
  /\ result' = NoResult
  /\ UNCHANGED <<repo, backend, locks, tasks, notes, marker, pc, op, local, held, acquired,
                 contexts, implementers, discussions, messages>>

\* --------------------------------- specification: discussions, two agents
\* two agents open, answer, archive and delete the discussions of one project;
\* the bulk delete is called for archived discussions of any age
InitDiscussions ==
  /\ backend = "sqlite"
  /\ InitCommon
  /\ repo = NoRepo

NextDiscussions ==
  \/ Tick
  \/ \E q \in Procs :
       \/ /\ Len(discussions) < MaxDiscussions
          /\ Len(messages) + PendingMessages < MaxMessages
          /\ \E w \in WaitingOnInputs : CreateDiscussionInsert(q, "/proj/a", w)
       \/ CreateDiscussionMessage(q)
       \/ /\ Len(messages) + PendingMessages < MaxMessages
          /\ \E id \in DiscussionIds, w \in WaitingOnInputs : ReplySelect(q, id, w)
       \/ ReplyInsertMessage(q)
       \/ ReplyUpdate(q)
       \/ DiscussionReread(q)
       \/ \E id \in DiscussionIds : ArchiveSelect(q, id)
       \/ ArchiveUpdate(q)
       \/ DeleteArchivedSelect(q, 0, UNDEF)
       \/ DeleteArchivedMessages(q)
       \/ DeleteArchivedRows(q)

SpecDiscussions == InitDiscussions /\ [][NextDiscussions]_vars

\* ------------------------------------ specification: replies, one agent
\* one agent opens, answers, resolves and archives discussions, call after call
InitReplies ==
  /\ backend = "sqlite"
  /\ InitCommon
  /\ repo = NoRepo

NextReplies ==
  \E q \in Reviewers :
    \/ /\ Len(discussions) < MaxDiscussions
       /\ Len(messages) + PendingMessages < MaxMessages
       /\ \E r \in ProjectRoots, w \in WaitingOnInputs : CreateDiscussionInsert(q, r, w)
    \/ CreateDiscussionMessage(q)
    \/ /\ Len(messages) + PendingMessages < MaxMessages
       /\ \E id \in DiscussionIds, w \in WaitingOnInputs : ReplySelect(q, id, w)
    \/ ReplyInsertMessage(q)
    \/ ReplyUpdate(q)
    \/ DiscussionReread(q)
    \/ \E id \in DiscussionIds : ResolveSelect(q, id)
    \/ ResolveUpdate(q)
    \/ \E id \in DiscussionIds : ArchiveSelect(q, id)
    \/ ArchiveUpdate(q)

SpecReplies == InitReplies /\ [][NextReplies]_vars

\* ----------------------------------- specification: archiving, one agent
\* one agent opens, resolves and archives discussions of two projects as the
\* days pass
\* bound on the discussions that agent creates
MaxThreads == 2
ThreadIds == 1..(MaxThreads + 1)

InitThreads ==
  /\ backend = "sqlite"
  /\ InitCommon
  /\ repo = NoRepo

NextThreads ==
  \/ Tick
  \/ \E q \in Reviewers :
       \/ /\ Len(discussions) < MaxThreads
          /\ \E r \in ProjectRoots : CreateDiscussionInsert(q, r, UNDEF)
       \/ CreateDiscussionMessage(q)
       \/ \E id \in ThreadIds : ResolveSelect(q, id)
       \/ ResolveUpdate(q)
       \/ DiscussionReread(q)
       \/ \E d \in DaysInputs, r \in ProjectRoots \cup {UNDEF} : ArchiveOldDiscussions(q, d, r)

SpecThreads == InitThreads /\ [][NextThreads]_vars

\* ------------------------------------------------------ claims: discussions
\* C13: no state another caller can read shows a discussion method half
\* applied: every discussion in the table has the first message that
\* createDiscussion writes with it, the messages of a discussion are removed
\* only together with it, and no reply has its message stored while the
\* discussion's status and waitingOn are still to be written.
C13_AllOrNothing ==
  /\ \A id \in 1..Len(discussions) : DiscussionExists(id) => MessagesOf(id) # {}
  /\ \A q \in Procs : pc[q] # "rd_update"

\* C15: a replyToDiscussion call whose discussion is resolved or archived
\* throws and writes nothing: no message is appended, the discussion rows
\* (status, waitingOn, timestamps) are unchanged and the call is over.
C15_ReplyOnClosedFails ==
  [][\A q \in Reviewers, id \in DiscussionIds, w \in WaitingOnInputs :
       ( /\ ReplySelect(q, id, w)
         /\ DiscussionExists(id)
         /\ discussions[id].status \in {"resolved", "archived"} )
       => /\ result' = Res("replyToDiscussion", "CannotReply")
          /\ pc'[q] = "idle"
          /\ messages' = messages
          /\ discussions' = discussions]_vars

\* a reply to a resolved discussion was refused
C15_Witness ==
  /\ result = Res("replyToDiscussion", "CannotReply")
  /\ \E id \in 1..Len(discussions) : discussions[id].status = "resolved"
  /\ Len(messages) = 1

\* C16: archiveOldDiscussions changes exactly the discussions that are
\* resolved, were resolved before the cutoff (now minus olderThanDays, 7 days
\* when not given) and, when a projectRoot is given, belong to it: those become
\* archived with archivedAt = now; every other discussion and every message is
\* unchanged, and the count returned is the number of discussions changed.
C16_ArchiveOldFrame ==
  [][\A q \in Reviewers, d \in DaysInputs, r \in ProjectRoots \cup {UNDEF} :
       (result'.kind = "archiveOldDiscussions" /\ ArchiveOldDiscussions(q, d, r)) =>
         LET cutoff == clock - (IF d = NoDays THEN 7 ELSE d)
             inScope(id) == /\ discussions[id].status = "resolved"
                            /\ discussions[id].resolvedAt # NoTime
                            /\ discussions[id].resolvedAt < cutoff
                            /\ (r = UNDEF \/ discussions[id].projectRoot = r)
         IN /\ Len(discussions') = Len(discussions)
            /\ \A id \in 1..Len(discussions) :
                 IF inScope(id)
                   THEN discussions'[id] =
                          [discussions[id] EXCEPT !.status = "archived", !.archivedAt = clock]
                   ELSE discussions'[id] = discussions[id]
            /\ messages' = messages
            /\ result'.count = Cardinality({id \in 1..Len(discussions) : inScope(id)})]_vars

\* a call archived one discussion resolved a day earlier and left alone one
\* resolved the same day
C16_Witness ==
  /\ result.kind = "archiveOldDiscussions"
  /\ result.count = 1
  /\ \E a, b \in 1..Len(discussions) :
       /\ discussions[a].status = "archived"
       /\ discussions[a].archivedAt = clock
       /\ discussions[a].resolvedAt < clock
       /\ discussions[b].status = "resolved"
       /\ discussions[b].resolvedAt = clock

\* C17: every stored discussion message refers to a discussion that exists,
\* in every state reached by replies, archiving and deletion of archived
\* discussions run by two agents in any interleaving.
C17_MessagesHaveDiscussion ==
  \A i \in 1..Len(messages) : DiscussionExists(messages[i].discussionId)

\* deleteArchivedDiscussions has removed a discussion that had messages,
\* and its messages with it
C17_Witness ==
  /\ result.kind = "deleteArchivedDiscussions"
  /\ result.out = "ok"
  /\ result.count = 1
  /\ \E id \in 1..Len(discussions) :
       /\ ~DiscussionExists(id)
       /\ MessagesOf(id) = {}

\* --------------------------------------------------------- project contexts
\* an optional string[] argument: absent or a list
StringLists == {UNDEF, "list"}
ImplementerTypes == {"claude"}
\* arguments of setProjectContext (description and endState are required and
\* always replaced; they are left out)
ContextInputs ==
  [projectRoot : {"/proj/a"},
   techStack : StringLists, constraints : StringLists,
   acceptanceCriteria : StringLists, tests : StringLists,
   implementationPlan : StringLists,
   preferredImplementer : ImplementerTypes \cup {UNDEF},
   status : {UNDEF, "ready"}]

\* a ?? b
Nullish(a, b) == IF a # UNDEF THEN a ELSE b

\* the ProjectContext object setProjectContext builds from its input and the
\* context it found
BuildContext(in, existing, now) ==
  [techStack |-> in.techStack,
   constraints |-> in.constraints,
   acceptanceCriteria |-> in.acceptanceCriteria,
   tests |-> in.tests,
   implementationPlan |-> in.implementationPlan,
   preferredImplementer |-> Nullish(in.preferredImplementer, existing.preferredImplementer),
   status |-> Nullish(in.status, Nullish(existing.status, "planning")),
   createdAt |-> IF HasContext(existing) THEN existing.createdAt ELSE now]

JsonSetProjectContextCall(q) == JsonBegin(q, "setProjectContext")

JsonUpdateProjectStatusCall(q) == JsonBegin(q, "updateProjectStatus")

\* loadContexts(), the first statement inside the critical section
JsonLoadContexts(q) ==
  /\ pc[q] = "load"
  /\ op[q] \in {"setProjectContext", "updateProjectStatus"}
  /\ local' = [local EXCEPT ![q] = contexts]
  /\ pc' = [pc EXCEPT ![q] = "body"]
  /\ result' = NoResult
  /\ UNCHANGED <<others, backend, locks, tasks, notes, marker, clock, op, held, acquired>>

\* contexts[input.projectRoot] = context; saveContexts(contexts)
JsonSetProjectContextBody(q, in) ==
  /\ pc[q] = "body"
  /\ op[q] = "setProjectContext"
  /\ BodyDone(q)
  /\ contexts' = [local[q] EXCEPT ![in.projectRoot] = BuildContext(in, @, clock)]
  /\ result' = Res("setProjectContext", "ok")
  /\ UNCHANGED <<repo, locks, tasks, notes, held, acquired, implementers, discussions, messages>>

JsonUpdateProjectStatusBody(q, root, status) ==
  /\ pc[q] = "body"
  /\ op[q] = "updateProjectStatus"
  /\ BodyDone(q)
  /\ IF ~HasContext(local[q][root])
       THEN /\ result' = Res("updateProjectStatus", "NotFound")
            /\ UNCHANGED contexts
       ELSE /\ contexts' = [local[q] EXCEPT ![root].status = status]
            /\ result' = Res("updateProjectStatus", "ok")
  /\ UNCHANGED <<repo, locks, tasks, notes, held, acquired, implementers, discussions, messages>>

\* SqliteStore.setProjectContext: SELECT the row, build the context
SqliteSetProjectContextSelect(q, in) ==
  /\ backend = "sqlite"
  /\ pc[q] = "idle"
  /\ DiscGoto(q, "setProjectContext", "spc_write",
              [in |-> in, existing |-> HasContext(contexts[in.projectRoot]),
               context |-> BuildContext(in, contexts[in.projectRoot], clock)])
  /\ UNCHANGED <<repo, backend, locks, tasks, notes, marker, clock, held, acquired,
                 contexts, implementers, discussions, messages>>

\* if (existing) UPDATE ... WHERE project_root = ? (created_at is not in the
\* SET list); else INSERT, which the primary key refuses when the row exists
SqliteSetProjectContextWrite(q) ==
  /\ pc[q] = "spc_write"
  /\ LET root == local[q].in.projectRoot
         context == local[q].context
     IN IF local[q].existing
          THEN /\ contexts' = IF HasContext(contexts[root])
                     THEN [contexts EXCEPT ![root] =
                             [context EXCEPT !.createdAt = contexts[root].createdAt]]
                     ELSE contexts
               /\ DiscDone(q, "setProjectContext", "ok")
          ELSE IF HasContext(contexts[root])
            THEN /\ DiscDone(q, "setProjectContext", "ConstraintError")
                 /\ UNCHANGED contexts
            ELSE /\ contexts' = [contexts EXCEPT ![root] = context]
                 /\ DiscDone(q, "setProjectContext", "ok")
  /\ UNCHANGED <<repo, backend, locks, tasks, notes, marker, clock, held, acquired,
                 implementers, discussions, messages>>

\* SqliteStore.updateProjectStatus: SELECT, UPDATE status and updated_at, SELECT
SqliteUpdateProjectStatus(q, root, status) ==
  /\ backend = "sqlite"
  /\ pc[q] = "idle"
  /\ IF ~HasContext(contexts[root])
       THEN /\ result' = Res("updateProjectStatus", "NotFound")
            /\ UNCHANGED contexts
       ELSE /\ contexts' = [contexts EXCEPT ![root].status = status]
            /\ result' = Res("updateProjectStatus", "ok")
  /\ UNCHANGED <<repo, backend, locks, tasks, notes, marker, clock, pc, op, local, held, acquired,
                 implementers, discussions, messages>>

\* --------------------------------- specification: one agent, one project
InitContext ==
  /\ backend \in {"json", "sqlite"}
  /\ InitCommon
  /\ repo = NoRepo

NextContext ==
  \/ Tick
  \/ \E q \in Reviewers :
       \/ JsonSetProjectContextCall(q)
       \/ JsonUpdateProjectStatusCall(q)
       \/ WithStateLockOpen(q)
       \/ JsonLoadContexts(q)
       \/ \E in \in ContextInputs : JsonSetProjectContextBody(q, in)
       \/ \E r \in ProjectRoots : JsonUpdateProjectStatusBody(q, r, "complete")
       \/ WithStateLockUnlink(q)
       \/ \E in \in ContextInputs : SqliteSetProjectContextSelect(q, in)
       \/ SqliteSetProjectContextWrite(q)
       \/ \E r \in ProjectRoots : SqliteUpdateProjectStatus(q, r, "complete")

SpecContext == InitContext /\ [][NextContext]_vars

\* C18: a setProjectContext call for a project root that has a context keeps
\* the stored value of every optional field the call does not supply
\* (techStack, constraints, acceptanceCriteria, tests, implementationPlan,
\* preferredImplementer, status) and keeps createdAt.
C18_MergeKeepsUnsupplied ==
  [][\A q \in Reviewers, in \in ContextInputs :
       ( /\ \/ JsonSetProjectContextBody(q, in)
            \/ (SqliteSetProjectContextWrite(q) /\ local[q].in = in)
         /\ HasContext(contexts[in.projectRoot]) )
       => /\ \A f \in ListFields \cup {"preferredImplementer", "status"} :
               in[f] = UNDEF => contexts'[in.projectRoot][f] = contexts[in.projectRoot][f]
          /\ contexts'[in.projectRoot].createdAt = contexts[in.projectRoot].createdAt]_vars

\* -------------------------------------------------------------- implementers
\* bound on the number of implementers registerImplementer is called for
MaxImplementers == 2
\* ids a caller may pass: the ids handed out, and one unknown
ImplementerIds == 1..(MaxImplementers + 1)
ImplementerStatuses == {"active", "stopped"}
\* the isolation arguments of registerImplementer: none, or a worktree
IsolationInputs ==
  { [isolation |-> UNDEF, worktreePath |-> UNDEF, branchName |-> UNDEF],
    [isolation |-> "worktree", worktreePath |-> "/wt/impl", branchName |-> "lockstep/impl"] }

\* the Implementer registerImplementer builds (name, type, pid and the
\* timestamps are left out)
NewImplementer(root, iso) ==
  [projectRoot |-> root, status |-> "active",
   isolation |-> Nullish(iso.isolation, "shared"),
   worktreePath |-> iso.worktreePath, branchName |-> iso.branchName]

\* a plausible slip: the record is rebuilt with the default isolation
SetStatusRebuilt(impl, status) ==
  [NewImplementer(impl.projectRoot, [isolation |-> UNDEF, worktreePath |-> UNDEF,
                                     branchName |-> UNDEF])
     EXCEPT !.status = status]

\* implementer.status = status / UPDATE implementers SET status = ?, updated_at = ?
SetStatus(impl, status) == [impl EXCEPT !.status = status]

\* resetImplementers' test: impl.projectRoot === projectRoot && impl.status === "active"
ResetSelects(impl, root) == impl.projectRoot = root /\ impl.status = "active"

\* the rows resetImplementers changes, and the table after it
ResetAll(impls, root) ==
  [i \in 1..Len(impls) |->
     IF ResetSelects(impls[i], root) THEN SetStatus(impls[i], "stopped") ELSE impls[i]]

ResetCount(impls, root) ==
  Cardinality({i \in 1..Len(impls) : ResetSelects(impls[i], root)})

JsonRegisterImplementerCall(q) ==
  /\ backend = "json"
  /\ Len(implementers) + InFlight("registerImplementer") < MaxImplementers
  /\ JsonBegin(q, "registerImplementer")

JsonUpdateImplementerCall(q) == JsonBegin(q, "updateImplementer")

JsonResetImplementersCall(q) == JsonBegin(q, "resetImplementers")

\* loadImplementers(), the first statement inside the critical section
JsonLoadImplementers(q) ==
  /\ pc[q] = "load"
  /\ op[q] \in {"registerImplementer", "updateImplementer", "resetImplementers"}
  /\ local' = [local EXCEPT ![q] = implementers]
  /\ pc' = [pc EXCEPT ![q] = "body"]
  /\ result' = NoResult
  /\ UNCHANGED <<others, backend, locks, tasks, notes, marker, clock, op, held, acquired>>

JsonRegisterImplementerBody(q, root, iso) ==
  /\ pc[q] = "body"
  /\ op[q] = "registerImplementer"
  /\ BodyDone(q)
  /\ implementers' = Append(local[q], NewImplementer(root, iso))
  /\ result' = Res("registerImplementer", "ok")
  /\ UNCHANGED <<repo, locks, tasks, notes, held, acquired, contexts, discussions, messages>>

JsonUpdateImplementerBody(q, id, status) ==
  /\ pc[q] = "body"
  /\ op[q] = "updateImplementer"
  /\ BodyDone(q)
  /\ IF id \notin 1..Len(local[q])
       THEN /\ result' = Res("updateImplementer", "NotFound")
            /\ UNCHANGED implementers
       ELSE /\ implementers' = [local[q] EXCEPT ![id] = SetStatus(@, status)]
            /\ result' = Res("updateImplementer", "ok")
  /\ UNCHANGED <<repo, locks, tasks, notes, held, acquired, contexts, discussions, messages>>

JsonResetImplementersBody(q, root) ==
  /\ pc[q] = "body"
  /\ op[q] = "resetImplementers"
  /\ BodyDone(q)
  /\ implementers' = ResetAll(local[q], root)
  /\ result' = [kind |-> "resetImplementers", out |-> "ok",
                count |-> ResetCount(local[q], root)]
  /\ UNCHANGED <<repo, locks, tasks, notes, held, acquired, contexts, discussions, messages>>

\* SqliteStore.registerImplementer: one INSERT
SqliteRegisterImplementer(q, root, iso) ==
  /\ backend = "sqlite"
  /\ pc[q] = "idle"
  /\ Len(implementers) < MaxImplementers
  /\ implementers' = Append(implementers, NewImplementer(root, iso))
  /\ result' = Res("registerImplementer", "ok")
  /\ UNCHANGED <<repo, backend, locks, tasks, notes, marker, clock, pc, op, local, held, acquired,
                 contexts, discussions, messages>>

\* SqliteStore.updateImplementer, first statement: SELECT the row
SqliteUpdateImplementerSelect(q, id, status) ==
  /\ backend = "sqlite"
  /\ pc[q] = "idle"
  /\ IF id \notin 1..Len(implementers)
       THEN DiscDone(q, "updateImplementer", "NotFound")
       ELSE DiscGoto(q, "updateImplementer", "ui_update", [id |-> id, status |-> status])
  /\ UNCHANGED <<repo, backend, locks, tasks, notes, marker, clock, held, acquired,
                 contexts, implementers, discussions, messages>>

\* UPDATE implementers SET status = ?, updated_at = ? WHERE id = ?, and the
\* SELECT of the row that is returned
SqliteUpdateImplementerWrite(q) ==
  /\ pc[q] = "ui_update"
  /\ implementers' = [implementers EXCEPT ![local[q].id] = SetStatus(@, local[q].status)]
  /\ DiscDone(q, "updateImplementer", "ok")
  /\ UNCHANGED <<repo, backend, locks, tasks, notes, marker, clock, held, acquired,
                 contexts, discussions, messages>>

\* SqliteStore.resetImplementers: one UPDATE, result.changes is returned
SqliteResetImplementers(q, root) ==
  /\ backend = "sqlite"
  /\ pc[q] = "idle"
  /\ implementers' = ResetAll(implementers, root)
  /\ result' = [kind |-> "resetImplementers", out |-> "ok",
                count |-> ResetCount(implementers, root)]
  /\ UNCHANGED <<repo, backend, locks, tasks, notes, marker, clock, pc, op, local, held, acquired,
                 contexts, discussions, messages>>

\* ------------------------------- specification: implementers, two agents
InitImplementers ==
  /\ backend \in {"json", "sqlite"}
  /\ InitCommon
  /\ repo = NoRepo

NextImplementers ==
  \E q \in Procs :
    \/ JsonRegisterImplementerCall(q)
    \/ JsonUpdateImplementerCall(q)
    \/ JsonResetImplementersCall(q)
    \/ WithStateLockOpen(q)
    \/ WithStateLockTimeout(q)
    \/ JsonLoadImplementers(q)
    \/ \E r \in ProjectRoots, iso \in IsolationInputs : JsonRegisterImplementerBody(q, r, iso)
    \/ \E id \in ImplementerIds, s \in ImplementerStatuses : JsonUpdateImplementerBody(q, id, s)
    \/ \E r \in ProjectRoots : JsonResetImplementersBody(q, r)
    \/ WithStateLockUnlink(q)
    \/ \E r \in ProjectRoots, iso \in IsolationInputs : SqliteRegisterImplementer(q, r, iso)
    \/ \E id \in ImplementerIds, s \in ImplementerStatuses : SqliteUpdateImplementerSelect(q, id, s)
    \/ SqliteUpdateImplementerWrite(q)
    \/ \E r \in ProjectRoots : SqliteResetImplementers(q, r)

SpecImplementers == InitImplementers /\ [][NextImplementers]_vars

\* C19: an implementer keeps the isolation, worktreePath and branchName it
\* was registered with: no step of any store operation, in any interleaving
\* of two agents, removes a registered implementer or changes these fields.
C19_IsolationFixed ==
  [][/\ Len(implementers') >= Len(implementers)
     /\ \A i \in 1..Len(implementers) :
          /\ implementers'[i].isolation = implementers[i].isolation
          /\ implementers'[i].worktreePath = implementers[i].worktreePath
          /\ implementers'[i].branchName = implementers[i].branchName
          /\ implementers'[i].projectRoot = implementers[i].projectRoot]_vars

\* an implementer registered with a worktree has been stopped, by
\* updateImplementer or by resetImplementers, and still has its worktree
C19_Witness ==
  /\ result.kind \in {"updateImplementer", "resetImplementers"}
  /\ result.out = "ok"
  /\ \E i \in 1..Len(implementers) :
       /\ implementers[i].status = "stopped"
       /\ implementers[i].isolation = "worktree"
       /\ implementers[i].worktreePath = "/wt/impl"
       /\ implementers[i].branchName = "lockstep/impl"

\* --------------------------------------------------------------------- notes
NoteAuthors == {UNDEF, "impl-1"}
AppendTexts == {"started"}

\* appendNote's Note object; crypto.randomUUID() is the caller and the number
\* of the note in the store when the object is built
StoredNote(q, n, text, author, now) ==
  [id |-> <<q, n>>, text |-> text, author |-> author, createdAt |-> now]

\* state.notes.push(note) / INSERT INTO notes
Push(ns, note) == Append(ns, note)

\* the position a row takes among rows sorted by created_at: behind every row
\* that is not later (the sorter keeps rows with equal keys in scan order)
RECURSIVE SortByCreatedAt(_)
SortByCreatedAt(ns) ==
  IF ns = <<>> THEN <<>>
  ELSE LET n == Len(ns)
           head == SortByCreatedAt(SubSeq(ns, 1, n - 1))
           k == Cardinality({i \in 1..Len(head) : head[i].createdAt <= ns[n].createdAt})
       IN SubSeq(head, 1, k) \o <<ns[n]>> \o SubSeq(head, k + 1, Len(head))

\* listNotes() without a limit: [...state.notes] in the JSON store,
\* SELECT * FROM notes ORDER BY created_at ASC in the relational store
ListNotes(b, ns) == IF b = "json" THEN ns ELSE SortByCreatedAt(ns)

JsonAppendNoteCall(q) ==
  /\ backend = "json"
  /\ Len(notes) + InFlight("appendNote") < MaxNotes
  /\ JsonBegin(q, "appendNote")

JsonAppendNoteBody(q, text, author) ==
  /\ pc[q] = "body"
  /\ op[q] = "appendNote"
  /\ BodyDone(q)
  /\ SaveState([local[q] EXCEPT !.notes =
       Push(@, StoredNote(q, Len(@) + 1, text, author, clock))])
  /\ result' = Res("appendNote", "ok")
  /\ UNCHANGED <<others, held, acquired>>

\* SqliteStore.appendNote: the Note object is built, createdAt = nowIso()
SqliteAppendNoteStamp(q, text, author) ==
  /\ backend = "sqlite"
  /\ pc[q] = "idle"
  /\ Len(notes) + InFlight("appendNote") < MaxNotes
  /\ DiscGoto(q, "appendNote", "an_insert",
              StoredNote(q, Len(notes) + 1, text, author, clock))
  /\ UNCHANGED <<others, backend, locks, tasks, notes, marker, clock, held, acquired>>

\* INSERT INTO notes (id, text, author, created_at)
SqliteAppendNoteInsert(q) ==
  /\ pc[q] = "an_insert"
  /\ notes' = Push(notes, local[q])
  /\ DiscDone(q, "appendNote", "ok")
  /\ UNCHANGED <<others, backend, locks, tasks, marker, clock, held, acquired>>

\* session_reset with confirm: true calls store.resetSession(projectRoot,
\* {keepProjectContext}), which clears the tasks, the locks and the notes,
\* stops the project's implementers, archives its discussions and clears the
\* project context or sets its status back to planning
GwSessionReset(q, root, keepProjectContext) ==
  /\ pc[q] = "idle"
  /\ tasks' = <<>>
  /\ locks' = <<>>
  /\ notes' = <<>>
  /\ held' = [p \in Paths |-> 0]
  /\ implementers' = ResetAll(implementers, root)
  /\ discussions' = [id \in 1..Len(discussions) |->
       IF DiscussionExists(id) /\ discussions[id].projectRoot = root
            /\ discussions[id].status # "archived"
         THEN [discussions[id] EXCEPT !.status = "archived", !.archivedAt = clock]
         ELSE discussions[id]]
  /\ contexts' = [contexts EXCEPT ![root] =
       IF keepProjectContext /\ HasContext(@) THEN [@ EXCEPT !.status = "planning"]
       ELSE NoContext]
  /\ result' = [kind |-> "session_reset", out |-> "ok", notesCleared |-> Len(notes)]
  /\ UNCHANGED <<backend, marker, clock, pc, op, local, acquired, messages, repo>>

\* ----------------------------------- specification: notes, two agents
InitNotes ==
  /\ backend \in {"json", "sqlite"}
  /\ InitCommon
  /\ repo = NoRepo

NextNotes ==
  \/ Tick
  \/ \E q \in Procs :
       \/ JsonAppendNoteCall(q)
       \/ WithStateLockOpen(q)
       \/ WithStateLockTimeout(q)
       \/ JsonLoadState(q)
       \/ \E t \in AppendTexts, a \in NoteAuthors : JsonAppendNoteBody(q, t, a)
       \/ WithStateLockUnlink(q)
       \/ \E t \in AppendTexts, a \in NoteAuthors : SqliteAppendNoteStamp(q, t, a)
       \/ SqliteAppendNoteInsert(q)
  \/ \E q \in Reviewers, r \in ProjectRoots, k \in BOOLEAN : GwSessionReset(q, r, k)

SpecNotes == InitNotes /\ [][NextNotes]_vars

\* C20: what listNotes() returns only grows: every note it returns before a
\* step it returns after the step, with the same id, text and author, and two
\* notes it returned in one order it returns in that order.
C20_AppendOnly ==
  [][LET old == ListNotes(backend, notes)
         new == ListNotes(backend, notes')
         pos(i) == CHOOSE j \in 1..Len(new) : new[j].id = old[i].id
     IN /\ \A i \in 1..Len(old) :
             \E j \in 1..Len(new) :
               /\ new[j].id = old[i].id
               /\ new[j].text = old[i].text
               /\ new[j].author = old[i].author
        /\ \A i, k \in 1..Len(old) : i < k => pos(i) < pos(k)]_vars

\* ------------------- specification: the marker file, three documents
\* two processes of the file-backed store call methods on state.json, on the
\* project contexts and on the implementers
MarkerPath == "README.md"
MarkerContextInputs ==
  {in \in ContextInputs :
     \A f \in ListFields \cup {"preferredImplementer", "status"} : in[f] = UNDEF}

\* the process is between creating the marker and removing it
InCritical(q) == pc[q] \in {"load", "body", "unlink"}

InitMarker ==
  /\ backend = "json"
  /\ InitCommon
  /\ repo = NoRepo

NextMarker ==
  \E q \in Procs :
    \/ JsonAcquireLockCall(q)
    \/ JsonReleaseLockCall(q)
    \/ JsonSetProjectContextCall(q)
    \/ JsonRegisterImplementerCall(q)
    \/ JsonUpdateImplementerCall(q)
    \/ WithStateLockOpen(q)
    \/ WithStateLockTimeout(q)
    \/ JsonLoadState(q)
    \/ JsonLoadContexts(q)
    \/ JsonLoadImplementers(q)
    \/ \E owner \in Owners : JsonAcquireLockBody(q, MarkerPath, owner)
    \/ \E owner \in Owners : JsonReleaseLockBody(q, MarkerPath, owner)
    \/ \E in \in MarkerContextInputs : JsonSetProjectContextBody(q, in)
    \/ JsonRegisterImplementerBody(q, "/proj/a",
         [isolation |-> UNDEF, worktreePath |-> UNDEF, branchName |-> UNDEF])
    \/ \E id \in ImplementerIds : JsonUpdateImplementerBody(q, id, "stopped")
    \/ WithStateLockUnlink(q)

SpecMarker == InitMarker /\ [][NextMarker]_vars

\* the retry loop of withStateLock runs on: a waiting caller's open is tried
\* again every 50 ms and, failing, is tested against the timeout
SpecMarkerFair ==
  SpecMarker /\ \A q \in Procs : WF_vars(WithStateLockOpen(q) \/ WithStateLockTimeout(q))

\* ------------------------------------------------------ claims: the marker
\* C22: at most one process is between creating the marker file and removing
\* it, and the marker names that process; the marker is removed only by the
\* process that created it, in its finally block, so a caller whose open
\* fails or that times out removes nothing.
C22_MarkerExclusive ==
  /\ [](\A q1, q2 \in Procs : (InCritical(q1) /\ InCritical(q2)) => q1 = q2)
  /\ [](\A q \in Procs : InCritical(q) <=> marker = q)
  /\ [][\A q \in Procs :
          /\ (marker = q /\ marker' # q) => (pc[q] = "unlink" /\ pc'[q] = "idle")
          /\ WithStateLockTimeout(q) => marker' = marker]_vars

\* one process is inside the critical section of a project-context call while
\* the other, calling an implementer method, has just timed out on the marker
C22_Witness ==
  \E q1, q2 \in Procs :
    /\ pc[q1] = "body" /\ op[q1] = "setProjectContext"
    /\ marker = q1
    /\ pc[q2] = "idle"
    /\ result = Res("registerImplementer", "LockTimeout")

C24_NoIndefiniteWait ==
  /\ \A q \in Procs : (pc[q] = "wait") ~> (pc[q] # "wait")
  /\ [][\A q \in Procs :
          WithStateLockTimeout(q) =>
            /\ result' = Res(op[q], "LockTimeout")
            /\ pc'[q] = "idle"
            /\ local'[q] = local[q]
            /\ UNCHANGED <<repo, locks, tasks, notes, contexts, implementers, marker>>]_vars

\* a caller has timed out while the other process held the marker
C24_Witness ==
  \E q \in Procs :
    /\ result.out = "LockTimeout"
    /\ pc[q] = "idle"
    /\ marker \in Procs \ {q}

\* ---------------------------------------------------------------------------
\* Merging a worktree back (src/src/worktree.ts, mergeWorktree)
\*
\* repo describes the main checkout and one implementer worktree:
\*   head        branch checked out in the main repository
\*   merging     a merge is in progress in the main repository (MERGE_HEAD)
\*   unmerged    paths git diff --diff-filter=U lists in the main repository
\*   rebasing    a rebase is in progress in the worktree
\*   rebased     the worktree branch was rewritten by a rebase
\*   commits     commits created since the repository was set up
\*   fetched     git fetch origin ran in the worktree
\*   dirty       the worktree has modified or untracked files
\*   differs     git diff target..branch is not empty
\* and how git will answer in this repository:
\*   rebase      "ok", "conflict" (stops with the rebase in progress) or
\*               "refused" (git rebase exits before it starts)
\*   conflicting paths changed on both the target and the worktree branch
\*   blocked     local changes in the main checkout make switching branches fail
\*   refuse      git merge exits before it starts (no MERGE_HEAD)
\*   commitFails git commit exits non-zero in the worktree (no user.email, a
\*               pre-commit hook that rejects)
\*   plusMarker  git branch --list prefixes a branch checked out in a linked
\*               worktree with "+ " (git 2.23 and later)
\* ---------------------------------------------------------------------------
Branches == {"main", "dev"}
TargetBranch == "main"
Files == {"a.ts", "b.ts"}
RebaseAnswers == {"ok", "conflict", "refused"}

MergeRepos ==
  {[NoRepo EXCEPT !.head = h, !.dirty = d, !.differs = f, !.rebase = rb,
                  !.conflicting = c, !.blocked = bl, !.refuse = rf,
                  !.commitFails = cf] :
     h \in Branches, d \in BOOLEAN, f \in BOOLEAN, rb \in RebaseAnswers,
     c \in SUBSET Files, bl \in BOOLEAN, rf \in BOOLEAN, cf \in BOOLEAN}

MergePcs == {"status", "diff", "rebase", "checkout", "merge", "catch"}

\* MergeResult
MergeRes(success, merged, conflicts, error) ==
  [kind |-> "mergeWorktree", out |-> IF success THEN "ok" ELSE "failed",
   success |-> success, merged |-> merged, conflicts |-> conflicts, error |-> error]


\* git merge --abort: restores the pre-merge state; exits 128 without MERGE_HEAD
GitMergeAbortNoop(r) == r
GitMergeAbort(r) == [r EXCEPT !.merging = FALSE, !.unmerged = {}]

\* git checkout <branch> in the main repository
CheckoutFails(r, b) == r.blocked /\ b # r.head

\* one call at a time; 'before' remembers the repository as the call found it
MergeWorktreeCall(q) ==
  /\ \A p \in Procs : pc[p] = "idle"
  /\ pc' = [pc EXCEPT ![q] = "status"]
  /\ op' = [op EXCEPT ![q] = "mergeWorktree"]
  /\ local' = [local EXCEPT ![q] = [before |-> repo, currentBranch |-> UNDEF]]
  /\ result' = NoResult
  /\ UNCHANGED <<repo, backend, locks, tasks, notes, marker, clock, held, acquired,
                 contexts, implementers, discussions, messages>>

\* getWorktreeStatus, then commitWorktreeChanges when anything is uncommitted;
\* commitWorktreeChanges catches a failing git commit and returns
\* {success: false}, which mergeWorktree does not look at
MergeStatus(q) ==
  /\ pc[q] = "status"
  /\ repo' = IF repo.dirty /\ ~repo.commitFails
               THEN [repo EXCEPT !.fetched = TRUE, !.dirty = FALSE, !.differs = TRUE,
                                 !.commits = @ \cup {"wip"}]
               ELSE [repo EXCEPT !.fetched = TRUE]
  /\ pc' = [pc EXCEPT ![q] = "diff"]
  /\ result' = NoResult
  /\ UNCHANGED <<backend, locks, tasks, notes, marker, clock, op, local, held, acquired,
                 contexts, implementers, discussions, messages>>

\* git diff target..branch --stat
MergeDiff(q) ==
  /\ pc[q] = "diff"
  /\ IF repo.differs
       THEN /\ pc' = [pc EXCEPT ![q] = "rebase"]
            /\ result' = NoResult
       ELSE /\ pc' = [pc EXCEPT ![q] = "idle"]
            /\ result' = MergeRes(TRUE, FALSE, Absent, FALSE)
  /\ UNCHANGED <<repo, backend, locks, tasks, notes, marker, clock, op, local, held,
                 acquired, contexts, implementers, discussions, messages>>

\* git rebase origin/target in the worktree (refused while the worktree has
\* uncommitted changes), rebase --abort when it fails,
\* then getCurrentBranch of the main repository
MergeRebase(q) ==
  /\ pc[q] = "rebase"
  /\ LET answer  == IF repo.dirty THEN "refused" ELSE repo.rebase
         rebased == IF answer = "ok" THEN [repo EXCEPT !.rebased = TRUE]
                    ELSE [repo EXCEPT !.rebasing = (answer = "conflict")]
     IN  repo' = IF answer = "ok" THEN rebased
                 ELSE [rebased EXCEPT !.rebasing = FALSE]
  /\ local' = [local EXCEPT ![q].currentBranch = repo.head]
  /\ pc' = [pc EXCEPT ![q] = "checkout"]
  /\ result' = NoResult
  /\ UNCHANGED <<backend, locks, tasks, notes, marker, clock, op, held, acquired,
                 contexts, implementers, discussions, messages>>

\* git checkout target
MergeCheckout(q) ==
  /\ pc[q] = "checkout"
  /\ IF CheckoutFails(repo, TargetBranch)
       THEN /\ pc' = [pc EXCEPT ![q] = "catch"]
            /\ repo' = repo
       ELSE /\ pc' = [pc EXCEPT ![q] = "merge"]
            /\ repo' = [repo EXCEPT !.head = TargetBranch]
  /\ result' = NoResult
  /\ UNCHANGED <<backend, locks, tasks, notes, marker, clock, op, local, held, acquired,
                 contexts, implementers, discussions, messages>>

\* git merge --no-ff branch
MergeMerge(q) ==
  /\ pc[q] = "merge"
  /\ IF repo.refuse
       THEN /\ pc' = [pc EXCEPT ![q] = "catch"]
            /\ repo' = repo
            /\ result' = NoResult
       ELSE IF repo.conflicting # {}
         THEN /\ pc' = [pc EXCEPT ![q] = "catch"]
              /\ repo' = [repo EXCEPT !.merging = TRUE, !.unmerged = repo.conflicting]
              /\ result' = NoResult
         ELSE /\ pc' = [pc EXCEPT ![q] = "idle"]
              /\ repo' = [repo EXCEPT !.commits = @ \cup {"merge"}, !.differs = FALSE]
              /\ result' = MergeRes(TRUE, TRUE, Absent, FALSE)
  /\ UNCHANGED <<backend, locks, tasks, notes, marker, clock, op, local, held, acquired,
                 contexts, implementers, discussions, messages>>

\* the catch block: list the unmerged paths, git merge --abort, check the
\* remembered branch out again; an exec that throws here reaches the outer catch
MergeCatch(q) ==
  /\ pc[q] = "catch"
  /\ IF ~repo.merging
       THEN /\ repo' = repo
            /\ result' = MergeRes(FALSE, FALSE, Absent, TRUE)
       ELSE IF CheckoutFails(GitMergeAbort(repo), local[q].currentBranch)
         THEN /\ repo' = GitMergeAbort(repo)
              /\ result' = MergeRes(FALSE, FALSE, Absent, TRUE)
         ELSE /\ repo' = [GitMergeAbort(repo) EXCEPT !.head = local[q].currentBranch]
              /\ result' = MergeRes(FALSE, FALSE, repo.unmerged, FALSE)
  /\ pc' = [pc EXCEPT ![q] = "idle"]
  /\ UNCHANGED <<backend, locks, tasks, notes, marker, clock, op, local, held, acquired,
                 contexts, implementers, discussions, messages>>

InitMerge ==
  /\ backend \in {"json", "sqlite"}
  /\ InitCommon
  /\ repo \in MergeRepos

NextMerge ==
  \E q \in Procs :
    \/ MergeWorktreeCall(q)
    \/ MergeStatus(q)
    \/ MergeDiff(q)
    \/ MergeRebase(q)
    \/ MergeCheckout(q)
    \/ MergeMerge(q)
    \/ MergeCatch(q)

SpecMerge == InitMerge /\ [][NextMerge]_vars

\* C25: when the merge stops on a conflict, the call returns success=false,
\* merged=false and exactly the conflicting paths, no merge is left in progress,
\* and the main checkout is on the branch it was on before the call.
C25_ConflictReported ==
  [][\A q \in Procs :
       (pc[q] = "catch" /\ repo.merging /\ MergeCatch(q)) =>
         /\ result' = MergeRes(FALSE, FALSE, repo.conflicting, FALSE)
         /\ ~repo'.merging
         /\ repo'.unmerged = {}
         /\ repo'.head = local[q].before.head]_vars

C25_Witness ==
  /\ result = MergeRes(FALSE, FALSE, Files, FALSE)
  /\ \A q \in Procs : pc[q] = "idle"
  /\ \E q \in Procs : op[q] = "mergeWorktree" /\ local[q].before.head = "dev"
  /\ repo.head = "dev"
  /\ ~repo.merging

\* C26: a call that returns a failure leaves no merge and no rebase in
\* progress and the main checkout on the branch it was on before the call.
C26_FailureRestores ==
  [][\A q \in Procs :
       (pc[q] \in MergePcs /\ pc'[q] = "idle" /\ ~result'.success) =>
         /\ ~repo'.merging
         /\ ~repo'.rebasing
         /\ repo'.head = local[q].before.head]_vars

\* C27: a call on a worktree whose branch does not differ from the target
\* returns {success: true, merged: false} and leaves the repository as it was:
\* no commit, no checkout, no rebase, no merge.
C27_NothingToMerge ==
  [][\A q \in Procs :
       (pc[q] \in MergePcs /\ pc'[q] = "idle" /\ ~local[q].before.differs) =>
         /\ result' = MergeRes(TRUE, FALSE, Absent, FALSE)
         /\ repo' = [local[q].before EXCEPT !.fetched = TRUE]]_vars

\* ---------------------------------------------------------------------------
\* Worktrees for implementers (src/src/worktree.ts createWorktree,
\* src/src/server.ts launch_implementer)
\*
\* repo.worktrees[name] describes <gitRoot>/.lockstep/worktrees/<name> and the
\* branch lockstep/<name>:
\*   exists   the directory and the branch exist
\*   work     the branch carries commits or files written since it was created
\*   madeFor  the launch the worktree was created in (the position the
\*            launched implementer takes in the registry)
\* ---------------------------------------------------------------------------
\* the names impl-N, in the order of N
AllNames == <<"impl-1", "impl-2", "impl-3">>
ImplNames == {AllNames[k] : k \in 1..Len(AllNames)}
NameNum(name) == CHOOSE k \in 1..Len(AllNames) : AllNames[k] = name

NoWorktree == [exists |-> FALSE, work |-> FALSE, madeFor |-> 0]

MaxOf(S) == CHOOSE x \in S : \A y \in S : y <= x

\* the highest N among the registered names impl-N
MaxNum(impls) == MaxOf({0} \cup {NameNum(impls[i].name) : i \in 1..Len(impls)})

\* createWorktree: an existing directory is removed with its branch
\* (removeWorktree), the branch is deleted again, and git worktree add -b
\* creates both anew from the current HEAD
CreateWorktree(r, name, launch) ==
  [r EXCEPT !.worktrees[name] = [exists |-> TRUE, work |-> FALSE, madeFor |-> launch]]

\* the implementers registered as active whose worktree is the one of 'name'
ActiveOwners(impls, r, name) ==
  {i \in 1..Len(impls) :
     /\ impls[i].status = "active"
     /\ impls[i].isolation = "worktree"
     /\ impls[i].worktreePath = name
     /\ r.worktrees[name].exists
     /\ r.worktrees[name].madeFor = i}

\* the launch_implementer tool; name = UNDEF asks for a generated name
LaunchImplementer(q, name, isolation) ==
  /\ pc[q] = "idle"
  /\ Len(implementers) < MaxImplementers
  /\ name = UNDEF => MaxNum(implementers) < Len(AllNames)
  /\ LET n    == IF name = UNDEF THEN AllNames[MaxNum(implementers) + 1] ELSE name
         iso  == IF isolation = "worktree"
                   THEN [isolation |-> "worktree", worktreePath |-> n, branchName |-> n]
                   ELSE [isolation |-> "shared", worktreePath |-> UNDEF, branchName |-> UNDEF]
     IN  /\ repo' = IF isolation = "worktree"
                      THEN CreateWorktree(repo, n, Len(implementers) + 1)
                      ELSE repo
         /\ implementers' = Append(implementers,
                                   NewImplementer("/proj/a", iso) @@ [name |-> n])
  /\ result' = Res("launch_implementer", "ok")
  /\ UNCHANGED <<backend, locks, tasks, notes, marker, clock, pc, op, local, held, acquired,
                 contexts, discussions, messages>>

\* an implementer writes and commits in its worktree
WorkInWorktree(name) ==
  /\ ActiveOwners(implementers, repo, name) # {}
  /\ ~repo.worktrees[name].work
  /\ repo' = [repo EXCEPT !.worktrees[name].work = TRUE]
  /\ result' = NoResult
  /\ UNCHANGED <<backend, locks, tasks, notes, marker, clock, pc, op, local, held, acquired,
                 contexts, implementers, discussions, messages>>

InitWorktrees ==
  /\ backend = "sqlite"
  /\ InitCommon
  /\ repo = [NoRepo EXCEPT !.worktrees = [n \in ImplNames |-> NoWorktree]]

NextWorktrees ==
  \/ \E q \in Procs, name \in ImplNames \cup {UNDEF}, isolation \in {"shared", "worktree"} :
       LaunchImplementer(q, name, isolation)
  \/ \E name \in ImplNames : WorkInWorktree(name)
  \/ \E q \in Procs, id \in 1..MaxImplementers : SqliteUpdateImplementerSelect(q, id, "stopped")
  \/ \E q \in Procs : SqliteUpdateImplementerWrite(q)

SpecWorktrees == InitWorktrees /\ [][NextWorktrees]_vars

\* C28: launching an implementer never removes, replaces or resets the
\* worktree and branch of an implementer that is registered as active, whatever
\* name the launch uses.
C28_WorktreeOwned ==
  [][\A name \in ImplNames :
       (result'.kind = "launch_implementer" /\ ActiveOwners(implementers, repo, name) # {}) =>
         repo'.worktrees[name] = repo.worktrees[name]]_vars

\* ---------------------------------------------------------------------------
\* listTasks (JsonStore 401-414, SqliteStore 1133-1157)
\* ---------------------------------------------------------------------------
\* bound on the tasks of the listing specification
MaxListed == 2

\* input.tags of createTask: absent or ["ui"]
TagLists == {Absent, {"ui"}}
\* filters?.status, filters?.owner, filters?.tag: absent, "", or a value
StatusFilters == {UNDEF, "todo", "done"}
OwnerFilters == {UNDEF, "", "impl-1"}
TagFilters == {UNDEF, "ui"}
ListFilters == [status : StatusFilters, owner : OwnerFilters, tag : TagFilters]

\* task.tags?.includes(tag)
HasTag(tags, tag) == tags # Absent /\ tag \in tags

\* the row positions 1..n, in table order
Ids(n) == [i \in 1..n |-> i]

\* a plausible slip: the tag filter, which SQL does not apply, is forgotten
TagFilterOff(ids, ts, tag) == ids

\* if (filters?.tag) tasks = tasks.filter((task) => task.tags?.includes(tag))
TagFilter(ids, ts, tag) ==
  IF Truthy(tag) THEN SelectSeq(ids, LAMBDA i : HasTag(ts[i].tags, tag)) ELSE ids

\* JsonStore.listTasks without a limit: [...state.tasks] filtered by status,
\* then owner, then tag
JsonListTasks(ts, f) ==
  LET all      == Ids(Len(ts))
      byStatus == IF Truthy(f.status)
                    THEN SelectSeq(all, LAMBDA i : ts[i].status = f.status) ELSE all
      byOwner  == IF Truthy(f.owner)
                    THEN SelectSeq(byStatus, LAMBDA i : ts[i].owner = f.owner) ELSE byStatus
  IN  TagFilter(byOwner, ts, f.tag)

\* SqliteStore.listTasks without a limit: SELECT * FROM tasks WHERE status = ?
\* AND owner = ? (each condition only when its filter is truthy), then the tag
\* filter on the parsed rows.  ORDER BY created_at only orders the rows.
SqliteListTasks(ts, f) ==
  LET rows == SelectSeq(Ids(Len(ts)),
                LAMBDA i : /\ Truthy(f.status) => ts[i].status = f.status
                           /\ Truthy(f.owner) => ts[i].owner = f.owner)
  IN  TagFilter(rows, ts, f.tag)

ListOf(b, ts, f) == IF b = "json" THEN JsonListTasks(ts, f) ELSE SqliteListTasks(ts, f)

\* listTasks(filters): reads the table, or state.json without the state lock
ListTasksCall(q, f) ==
  /\ pc[q] = "idle"
  /\ result' = [kind |-> "listTasks", out |-> "ok", filters |-> f,
                tasks |-> ListOf(backend, tasks, f)]
  /\ UNCHANGED <<others, backend, locks, tasks, notes, marker, clock, pc, op, local,
                 held, acquired>>

InitList ==
  /\ backend \in {"json", "sqlite"}
  /\ InitCommon
  /\ repo = NoRepo

NextList ==
  \E q \in Procs :
    \/ \E st \in {UNDEF, "done"}, o \in {UNDEF, "impl-1"}, tg \in TagLists :
         SqliteCreateTaskInsert(q, NewTaggedTask(st, o, tg), MaxListed)
    \/ /\ Len(tasks) + InFlight("createTask") < MaxListed
       /\ JsonBegin(q, "createTask")
    \/ WithStateLockOpen(q)
    \/ WithStateLockTimeout(q)
    \/ JsonLoadState(q)
    \/ \E st \in {UNDEF, "done"}, o \in {UNDEF, "impl-1"}, tg \in TagLists :
         JsonCreateTaskPush(q, NewTaggedTask(st, o, tg))
    \/ WithStateLockUnlink(q)
    \/ \E f \in ListFilters : ListTasksCall(q, f)

SpecList == InitList /\ [][NextList]_vars

\* a task passes every filter that is supplied (present and not empty)
Matches(t, f) ==
  /\ Truthy(f.status) => t.status = f.status
  /\ Truthy(f.owner) => t.owner = f.owner
  /\ Truthy(f.tag) => (t.tags # Absent /\ f.tag \in t.tags)

Occurrences(L, id) == Cardinality({i \in 1..Len(L) : L[i] = id})

\* C29: right after createTask stored task t, listTasks({status: t.status})
\* contains t exactly once; and listTasks with status, owner and tag filters
\* returns each task that passes all supplied filters exactly once and no other.
C29_ListRoundTrip ==
  [][/\ (result'.kind = "createTask" /\ Len(tasks') = Len(tasks) + 1) =>
          LET id == Len(tasks')
              f  == [status |-> tasks'[id].status, owner |-> UNDEF, tag |-> UNDEF]
          IN  Occurrences(ListOf(backend, tasks', f), id) = 1
     /\ result'.kind = "listTasks" =>
          \A id \in 1..MaxListed + 1 :
            Occurrences(result'.tasks, id) =
              IF id \in 1..Len(tasks) /\ Matches(tasks[id], result'.filters) THEN 1 ELSE 0]_vars

\* two tasks are stored and a listing by status, owner and tag returned one
C29_Witness ==
  /\ Len(tasks) = 2
  /\ result.kind = "listTasks"
  /\ result.filters = [status |-> "done", owner |-> "impl-1", tag |-> "ui"]
  /\ Len(result.tasks) = 1

\* C30: the step that applies updateTask(id) with no field supplied changes,
\* in the stored tasks, nothing but that task's updatedAt: status, owner, tags
\* and the review fields of every task are as they were.
C30_NoFieldsNoop ==
  [][\A q \in Procs :
       /\ ( /\ SqliteUpdateTaskWrite(q)
            /\ op[q].kind = "updateTask"
            /\ \A f \in TaskFields : op[q].in[f] = UNDEF )
            => \A id \in 1..Len(tasks), f \in TaskFields \cup {"tags"} :
                 tasks'[id][f] = tasks[id][f]
       /\ \A id \in TaskIds :
            JsonUpdateTaskBody(q, "updateTask", id, UNDEF, UNDEF)
              => /\ Len(tasks') = Len(tasks)
                 /\ \A i \in 1..Len(tasks), f \in TaskFields \cup {"tags"} :
                      tasks'[i][f] = tasks[i][f]]_vars

\* JsonStore.acquireLock's answer on a lock table: a conflict when the path
\* has an active record, otherwise the record is pushed
JsonAcquireOutcome(ls, path) ==
  IF ExistingLock(ls, path) # {} THEN "LockConflict" ELSE "ok"

\* C21: the two stores are interchangeable: on the same lock table (the same
\* calls made before) acquireLock of the relational store ends as acquireLock
\* of the file-backed store does, and leaves the table the file-backed store
\* leaves.
C21_BackendsAgree ==
  [][\A q \in Procs, path \in Paths, owner \in OwnerInputs :
       SqliteAcquireLock(q, path, owner) =>
         /\ result'.out = JsonAcquireOutcome(locks, path)
         /\ locks' = IF JsonAcquireOutcome(locks, path) = "ok"
                       THEN Append(locks, Lock(path, owner))
                       ELSE locks]_vars

\* C31: requestTaskChanges(id, feedback) on a task in review goes on to its
\* update, which leaves the task in_progress with reviewFeedback the feedback
\* and the owner it had, so whoever could submit the task before can submit it
\* again.
C31_RequestChangesKeepsOwner ==
  [][\A q \in Procs :
       /\ \A id \in TaskIds, f \in Feedbacks :
            ( /\ SqliteRequestTaskChanges(q, id, f)
              /\ TaskExists(id)
              /\ tasks[id].status = "review" ) => pc'[q] = "upd_select"
       /\ (pc[q] = "upd_write" /\ pc'[q] = "idle" /\ op[q].kind = "requestTaskChanges")
          => LET id == local[q].id
             IN  /\ result' = Res("requestTaskChanges", "ok")
                 /\ tasks'[id].status = "in_progress"
                 /\ tasks'[id].reviewFeedback = op[q].args.feedback
                 /\ tasks'[id].owner = tasks[id].owner
                 /\ tasks'[id].reviewNotes = tasks[id].reviewNotes
                 /\ \A o \in Owners :
                      SubmitOwnerOk(tasks[id].owner, o) => SubmitOwnerOk(tasks'[id].owner, o)]_vars

\* changes were requested on a task that was submitted by its owner
C31_Witness ==
  /\ result = Res("requestTaskChanges", "ok")
  /\ \E id \in 1..Len(tasks) :
       /\ tasks[id].status = "in_progress"
       /\ tasks[id].owner = "impl-1"
       /\ tasks[id].reviewNotes \in ReviewNotes
       /\ tasks[id].reviewFeedback \in Feedbacks

\* C32: a task enters review only from in_progress and only by
\* submitTaskForReview; no task is created in review and no task in todo,
\* blocked or done is moved to review.
C32_ReviewOnlyFromInProgress ==
  [][ /\ Len(tasks') > Len(tasks) => tasks'[Len(tasks')].status # "review"
      /\ \A id \in 1..Len(tasks) :
           (tasks[id].status # "review" /\ tasks'[id].status = "review")
           => /\ result'.kind = "submitTaskForReview"
              /\ tasks[id].status = "in_progress" ]_vars

\* ------------------------------------------------------ discussion claims
\* the status and waiting_on a create or reply called with waitingOn w leaves
AsCalled(d, w) ==
  IF w # UNDEF /\ w # ""
    THEN d.status = "waiting" /\ d.waitingOn = w
    ELSE d.status = "open" /\ d.waitingOn = UNDEF

C34_ResolveUnconditional ==
  [][\A q \in Procs :
       /\ \A id \in DiscussionIds :
            (ResolveSelect(q, id) /\ DiscussionExists(id)) => pc'[q] = "update"
       /\ ResolveUpdate(q)
            => LET d == discussions'[local[q].id]
               IN  /\ d.status = "resolved"
                   /\ d.decision = ResolveDecision
                   /\ d.resolvedAt = local[q].now
                   /\ d.waitingOn = UNDEF
                   /\ messages' = messages
       /\ (DiscussionReread(q) /\ op[q] = "resolveDiscussion")
            => result' = Res("resolveDiscussion", "ok")]_vars

\* a discussion that had been archived was resolved
C34_Witness ==
  /\ result = Res("resolveDiscussion", "ok")
  /\ \E id \in 1..Len(discussions) :
       /\ discussions[id].status = "resolved"
       /\ discussions[id].archivedAt # NoTime
       /\ discussions[id].decision = ResolveDecision

\* C38: a discussion has waitingOn set exactly when its status is waiting.
C38_WaitingIffWaitingOn ==
  \A id \in 1..Len(discussions) :
    discussions[id].status # "deleted"
      => (discussions[id].waitingOn # UNDEF <=> discussions[id].status = "waiting")

\* C39: a discussion that is resolved or archived is never open or waiting
\* again.
C39_ClosedStaysClosed ==
  [][\A id \in 1..Len(discussions) :
       discussions[id].status \in {"resolved", "archived"}
         => discussions'[id].status \notin {"open", "waiting"}]_vars

\* C35: when mergeWorktree returns merged = true, what was uncommitted in the
\* worktree when the call started has been committed to the branch that was
\* merged; no merge is made after an auto-commit that failed.
C35_UncommittedMerged ==
  [][\A q \in Procs :
       ( /\ pc[q] \in MergePcs
         /\ pc'[q] = "idle"
         /\ result'.merged
         /\ local[q].before.dirty )
       => /\ ~repo'.dirty
          /\ "wip" \in repo'.commits]_vars

\* ---------------------------------------------------------------------------
\* cleanupOrphanedWorktrees (worktree.ts).  For this part repo.worktrees maps
\* each name impl-N to what git and the file system hold for it:
\*   entry   .git/worktrees has an entry for .lockstep/worktrees/impl-N, with
\*           lockstep/impl-N checked out
\*   dir     the directory .lockstep/worktrees/impl-N exists
\*   branch  the branch lockstep/impl-N exists
\* git does not delete a branch that is checked out in a worktree entry, so an
\* entry always has its branch.
\* ---------------------------------------------------------------------------
TreeStates ==
  {t \in [entry : BOOLEAN, dir : BOOLEAN, branch : BOOLEAN] : t.entry => t.branch}

CleanupPcs == {"prune", "list", "remove", "branches"}

\* a plausible slip: the prune is left out
GitWorktreePruneNoop(r) == r

\* git worktree prune: entries whose directory is gone are dropped
GitWorktreePrune(r) ==
  [r EXCEPT !.worktrees =
     [n \in ImplNames |-> IF r.worktrees[n].entry /\ ~r.worktrees[n].dir
                            THEN [r.worktrees[n] EXCEPT !.entry = FALSE]
                            ELSE r.worktrees[n]]]

\* listWorktrees: the entries of git worktree list --porcelain whose branch
\* starts with lockstep/
ListWorktrees(r) == {n \in ImplNames : r.worktrees[n].entry}

\* git worktree remove --force: the entry goes, also when the directory is gone
GitWorktreeRemove(r, names) ==
  [r EXCEPT !.worktrees =
     [n \in ImplNames |-> IF n \in names
                            THEN [entry |-> FALSE, dir |-> FALSE,
                                  branch |-> r.worktrees[n].branch]
                            ELSE r.worktrees[n]]]

\* the lines of git branch --list 'lockstep/*' after trim and replace("* ", ""):
\* a "+ " prefix stays in the name
BranchLines(r) ==
  {[name |-> n, plus |-> r.plusMarker /\ r.worktrees[n].entry] :
     n \in {m \in ImplNames : r.worktrees[m].branch}}

\* git branch -D on each name: refused for a name that is no branch and for a
\* branch checked out in a worktree entry
GitBranchDelete(r, lines) ==
  [r EXCEPT !.worktrees =
     [n \in ImplNames |->
        IF /\ [name |-> n, plus |-> FALSE] \in lines
           /\ ~r.worktrees[n].entry
          THEN [r.worktrees[n] EXCEPT !.branch = FALSE]
          ELSE r.worktrees[n]]]

CleanupOrphanedWorktreesCall(q) ==
  /\ pc[q] = "idle"
  /\ pc' = [pc EXCEPT ![q] = "prune"]
  /\ op' = [op EXCEPT ![q] = "cleanupOrphanedWorktrees"]
  /\ local' = [local EXCEPT ![q] = [before |-> repo, worktrees |-> {}, cleaned |-> {}]]
  /\ result' = NoResult
  /\ UNCHANGED <<backend, locks, tasks, notes, marker, clock, held, acquired,
                 contexts, implementers, discussions, messages, repo>>

CleanupPrune(q) ==
  /\ pc[q] = "prune"
  /\ repo' = GitWorktreePrune(repo)
  /\ pc' = [pc EXCEPT ![q] = "list"]
  /\ result' = NoResult
  /\ UNCHANGED <<backend, locks, tasks, notes, marker, clock, op, local, held, acquired,
                 contexts, implementers, discussions, messages>>

CleanupList(q) ==
  /\ pc[q] = "list"
  /\ local' = [local EXCEPT ![q].worktrees = ListWorktrees(repo)]
  /\ pc' = [pc EXCEPT ![q] = "remove"]
  /\ result' = NoResult
  /\ UNCHANGED <<backend, locks, tasks, notes, marker, clock, op, held, acquired,
                 contexts, implementers, discussions, messages, repo>>

\* the loop over the listed worktrees: fs.access, git worktree remove --force
CleanupRemove(q) ==
  /\ pc[q] = "remove"
  /\ LET gone == {n \in local[q].worktrees : ~repo.worktrees[n].dir}
     IN  /\ repo' = GitWorktreeRemove(repo, gone)
         /\ local' = [local EXCEPT ![q].cleaned = gone]
  /\ pc' = [pc EXCEPT ![q] = "branches"]
  /\ result' = NoResult
  /\ UNCHANGED <<backend, locks, tasks, notes, marker, clock, op, held, acquired,
                 contexts, implementers, discussions, messages>>

\* the loop over the branches, tested against the list taken before the removals
CleanupBranches(q) ==
  /\ pc[q] = "branches"
  /\ LET lines == BranchLines(repo)
         orphan == {l \in lines : ~(~l.plus /\ l.name \in local[q].worktrees)}
     IN  repo' = GitBranchDelete(repo, orphan)
  /\ pc' = [pc EXCEPT ![q] = "idle"]
  /\ result' = Res("cleanupOrphanedWorktrees", "ok") @@ [cleaned |-> local[q].cleaned]
  /\ UNCHANGED <<backend, locks, tasks, notes, marker, clock, op, local, held, acquired,
                 contexts, implementers, discussions, messages>>

InitCleanup ==
  /\ backend \in {"json", "sqlite"}
  /\ InitCommon
  /\ \E w \in [ImplNames -> TreeStates], pm \in BOOLEAN :
       repo = [NoRepo EXCEPT !.worktrees = w, !.plusMarker = pm]

NextCleanup ==
  \E q \in Procs :
    \/ CleanupOrphanedWorktreesCall(q)
    \/ CleanupPrune(q)
    \/ CleanupList(q)
    \/ CleanupRemove(q)
    \/ CleanupBranches(q)

SpecCleanup == InitCleanup /\ [][NextCleanup]_vars

\* C36: when cleanupOrphanedWorktrees returns, no worktree entry is left whose
\* directory is gone and every lockstep/* branch left has a worktree entry;
\* no step deletes the branch of a worktree that still exists.
C36_OrphansCleaned ==
  [][/\ \A q \in Procs :
          (pc[q] = "branches" /\ pc'[q] = "idle") =>
            \A n \in ImplNames :
              /\ repo'.worktrees[n].entry => repo'.worktrees[n].dir
              /\ repo'.worktrees[n].branch => repo'.worktrees[n].entry
     /\ \A n \in ImplNames :
          (repo.worktrees[n].entry /\ repo.worktrees[n].dir /\ repo.worktrees[n].branch)
            => repo'.worktrees[n].branch]_vars

\* a call has returned that found a stale entry, an orphan branch and a live
\* worktree: the first two are gone, the third is as it was
C36_Witness ==
  /\ result.kind = "cleanupOrphanedWorktrees"
  /\ \E q \in Procs :
       /\ pc[q] = "idle"
       /\ op[q] = "cleanupOrphanedWorktrees"
       /\ \E n, m, k \in ImplNames :
            /\ local[q].before.worktrees[n] = [entry |-> TRUE, dir |-> FALSE, branch |-> TRUE]
            /\ repo.worktrees[n] = [entry |-> FALSE, dir |-> FALSE, branch |-> FALSE]
            /\ local[q].before.worktrees[m] = [entry |-> FALSE, dir |-> FALSE, branch |-> TRUE]
            /\ ~repo.worktrees[m].branch
            /\ local[q].before.worktrees[k] = [entry |-> TRUE, dir |-> TRUE, branch |-> TRUE]
            /\ repo.worktrees[k] = local[q].before.worktrees[k]

\* ------------------------------------------------------- listNotes(limit)
\* the limits a caller passes; 0 stands for no limit (!limit)
NoteLimits == (0 - 1)..(MaxNotes + 1)

\* listNotes(limit): everything when the limit is absent, zero or negative,
\* otherwise slice(max(length - limit, 0)) of what listNotes() returns
ListNotesLimit(b, ns, limit) ==
  LET all == ListNotes(b, ns)
  IN  IF limit <= 0 THEN all
      ELSE SubSeq(all, MaxOf({Len(all) - limit, 0}) + 1, Len(all))

\* the last min(n, total) elements of a sequence
LastOf(s, n) == SubSeq(s, Len(s) - MaxOf({k \in 0..Len(s) : k <= n}) + 1, Len(s))

\* C37: listNotes() returns the notes in the order they were added to the
\* store, and listNotes(n) with n > 0 returns the last min(n, total) of them
\* in that order, whatever their timestamps.
C37_InsertionOrder ==
  /\ ListNotesLimit(backend, notes, 0) = notes
  /\ \A n \in NoteLimits : n > 0 => ListNotesLimit(backend, notes, n) = LastOf(notes, n)

\* ------------------- specification: a process dies inside withStateLock
\* The process is killed between fs.open(lockPath, "wx") and the unlink of the
\* finally block, which then never runs: the marker file stays, and the
\* process takes no further step.
Crash(q) ==
  /\ InCritical(q)
  /\ \A p \in Procs : pc[p] # "crashed"
  /\ pc' = [pc EXCEPT ![q] = "crashed"]
  /\ result' = NoResult
  /\ UNCHANGED <<others, backend, locks, tasks, notes, marker, clock, op, local, held,
                 acquired>>

NextCrash ==
  \/ NextMarker
  \/ \E q \in Procs : Crash(q)

SpecCrash == InitMarker /\ [][NextCrash]_vars

\* the retry loop of withStateLock runs on in every live process
SpecCrashFair ==
  SpecCrash /\ \A q \in Procs : WF_vars(WithStateLockOpen(q) \/ WithStateLockTimeout(q))

\* C40: after a process has died holding the marker file, a call of another
\* process that waits for the marker is followed by a call that gets it: the
\* store does not answer LockTimeout for ever.
C40_StoreRecovers ==
  \A q \in Procs :
    (pc[q] = "wait" /\ marker \in Procs /\ pc[marker] = "crashed")
      ~> (\E p \in Procs : pc[p] = "load")

====
